---- MODULE Spec2Model ----
(***************************************************************************)
(* A model of secan: uniaxial material laws (material.py), fibers          *)
(* (geometry.py) and the composite section with its two Newton solvers     *)
(* (section.py).                                                           *)
(*                                                                         *)
(* Numbers.  The program computes in floating point; the model computes on *)
(* integer grids:                                                          *)
(*   strain      1 unit = 5e-4  (so max_increment_e0 = 0.0005 is 1 unit)   *)
(*   stress      1 unit = 1 MPa (so the fc thresholds 55e6, 90e6 are 55,90)*)
(*   stiffness   stress units per strain unit                              *)
(*   length      1 unit, heights of rectangles multiples of 2*n_discret    *)
(*   area        1 unit = 1/AreaScale of a square length unit              *)
(*   force       area units * stress units; the length unit is the one for *)
(*               which this is 0.01 N, so tolerance_check_section = 0.01   *)
(*               is 1 unit and residual_e0 = 10 is 1000 units              *)
(* A true division a/b is Quot(a, b), the quotient rounded toward zero on  *)
(* the grid.  The derived constants of Concrete are kept on finer grids    *)
(* (1e-6 strain, 1e-3 for the exponent) because they are not multiples of  *)
(* the strain unit.                                                        *)
(***************************************************************************)
EXTENDS Integers, Sequences, FiniteSets, TLC

(***************************************************************************)
(* Bounds of the model.                                                    *)
(***************************************************************************)
\* longest strain array handed to a material law
MaxArrayLen == 2
\* largest strain magnitude handed to a material law as a scalar
MaxStrain == 8
\* array elements are multiples of 3 strain units up to 3 * MaxArrayStrain
MaxArrayStrain == 1

(***************************************************************************)
(* Grids.                                                                  *)
(***************************************************************************)
\* micro-strains per strain unit: 0.0005 = 500e-6
StrainUnitMicro == 500
\* the exponent n of Concrete is kept in thousandths
NScale == 1000

VARIABLES
    mat,            \* the material object the caller holds
    mat_out,        \* the last operation on it: [op, arg, res]
    section,        \* Section.section: the fibers, in insertion order
    centroid,       \* Section.centroid
    area_rebar,     \* Section.area_rebar
    centroid_rebar, \* Section.centroid_rebar
    cfg,            \* residual_e0, max_increment_e0, n_ite_e0,
                    \* tolerance_check_section
    sec_out,        \* the last constructor or add* call: [op, arg, res]
    ge,             \* the last get_e0 call: its arguments and outcome
    cs,             \* the last check_section call
    mc,             \* the last get_moment_curvature call
    fiber,          \* the Geometry object the caller holds
    geo_out,        \* the last geometry query: [op, arg, res]
    mm              \* the last get_max_moment call

matvars == <<mat, mat_out>>
secvars == <<section, centroid, area_rebar, centroid_rebar, cfg, sec_out>>
fibvars == <<fiber, geo_out>>
vars == <<mat, mat_out, section, centroid, area_rebar, centroid_rebar, cfg,
          sec_out, ge, cs, mc, fiber, geo_out, mm>>

(***************************************************************************)
(* Arithmetic helpers.                                                     *)
(***************************************************************************)
\* abs()
Abs(x) == IF x < 0 THEN -x ELSE x

\* np.sign(): -1, 0 or 1
Sign(x) == IF x > 0 THEN 1 ELSE IF x < 0 THEN -1 ELSE 0

\* a / b for b # 0, rounded toward zero on the grid
Quot(a, b) == Sign(a) * Sign(b) * (Abs(a) \div Abs(b))

\* x ** 2 and x ** 4
Pow2(x) == x * x
Pow4(x) == x * x * x * x

\* x ** 0.53 in thousandths, tabulated for the strengths the model constructs
\* (x = fc/1e6 - 50)
Pow053Milli(x) ==
    CASE x = 5  -> 2347
      [] x = 20 -> 4893
      [] x = 40 -> 7065

RECURSIVE SeqSum(_)
\* np.sum / ndarray.sum of a one-dimensional array
SeqSum(s) == IF s = <<>> THEN 0 ELSE Head(s) + SeqSum(Tail(s))

RECURSIVE SqrtFrom(_, _, _)
\* the least r' >= r with num / den <= (r' + 1/2) ** 2, for num, den > 0
SqrtFrom(r, num, den) ==
    IF num <= (r * r + r) * den THEN r ELSE SqrtFrom(r + 1, num, den)

\* (num / den) ** 0.5 for num >= 0, den > 0, rounded to the nearest grid point
SqrtQuot(num, den) == IF num = 0 THEN 0 ELSE SqrtFrom(1, num, den)

(***************************************************************************)
(* What a call hands back: a scalar, a one-dimensional array, or an        *)
(* exception.  One record shape for the three: v holds the value(s).       *)
(***************************************************************************)
Scalar(x) == [kind |-> "scalar", v |-> <<x>>, exc |-> "-"]
Array(s) == [kind |-> "array", v |-> s, exc |-> "-"]
Raise(e) == [kind |-> "raise", v |-> <<>>, exc |-> e]
Returned(x) == [kind |-> "return", v |-> <<x>>, exc |-> "-"]
ReturnedNone == [kind |-> "None", v |-> <<>>, exc |-> "-"]
NoCall == [kind |-> "nocall", v |-> <<>>, exc |-> "-"]

\* the value of a scalar outcome
Val(o) == o.v[1]

(***************************************************************************)
(* material.py: Linear                                                     *)
(***************************************************************************)
NoMaterial == [type |-> "none"]

\* Linear.__init__
Linear(young) == [type |-> "Linear", young |-> young]

\* Linear.get_stiff: self.young whatever the strain is, array or not
Linear_get_stiff(m, x) == Scalar(m.young)

\* Linear.get_stress: self.young * strain (numpy broadcasts over an array)
Linear_get_stress(m, x) ==
    IF x.kind = "array"
    THEN Array([i \in 1..Len(x.v) |-> m.young * x.v[i]])
    ELSE Scalar(m.young * Val(x))

(***************************************************************************)
(* material.py: Concrete                                                   *)
(***************************************************************************)
\* the low-strength constants: -2/1e3, -3.5/1e3, 2
Ec2Low == -2000
EcuLow == -3500
NLow == 2

\* the bounds of the two strength regimes: 0e6, 55e6, 90e6
FcMin == 0
FcHigh == 55
FcMax == 90

\* Concrete._get_constants with the regime boundary off by one: 55e6 taken as
\* low strength
Concrete_get_constants_Boundary(fc) ==
    IF FcMin <= fc /\ fc <= FcHigh
    THEN [ok |-> TRUE, ec2 |-> Ec2Low, ecu |-> EcuLow, n |-> NLow * NScale]
    ELSE IF FcHigh < fc /\ fc <= FcMax
    THEN [ok |-> TRUE,
          ec2 |-> -1 * (2000 + Quot(85 * Pow053Milli(fc - 50), 1000)),
          ecu |-> -1 * (2600 + Quot(35 * Pow4(90 - fc), 100000)),
          n |-> 1400 + Quot(234 * Pow4(90 - fc), 1000000)]
    ELSE [ok |-> FALSE, ec2 |-> 0, ecu |-> 0, n |-> 0]

\* Concrete._get_constants: <<ec2, ecu, n>> (micro-strain, micro-strain,
\* thousandths), or the ValueError
Concrete_get_constants(fc) ==
    IF FcMin <= fc /\ fc < FcHigh
    THEN [ok |-> TRUE, ec2 |-> Ec2Low, ecu |-> EcuLow, n |-> NLow * NScale]
    ELSE IF FcHigh <= fc /\ fc <= FcMax
    THEN [ok |-> TRUE,
          ec2 |-> -1 * (2000 + Quot(85 * Pow053Milli(fc - 50), 1000)),
          ecu |-> -1 * (2600 + Quot(35 * Pow4(90 - fc), 100000)),
          n |-> 1400 + Quot(234 * Pow4(90 - fc), 1000000)]
    ELSE [ok |-> FALSE, ec2 |-> 0, ecu |-> 0, n |-> 0]

\* Concrete.fc setter on object m (m may be the half-built object of __init__):
\* _fc is stored first, then the constants are computed, which may raise.
\* The result is <<object after the statement, outcome>>.
Concrete_set_fc(m, new_fc) ==
    LET stored == [m EXCEPT !.fc = new_fc]
        c == Concrete_get_constants(new_fc)
    IN IF c.ok
       THEN <<[stored EXCEPT !.ec2 = c.ec2, !.ecu = c.ecu, !.n = c.n],
              Returned(0)>>
       ELSE <<stored, Raise("ValueError")>>

\* Concrete.__init__: self.fc = fc on a fresh object
Concrete(fc) ==
    Concrete_set_fc([type |-> "Concrete", fc |-> 0, ec2 |-> 0, ecu |-> 0,
                     n |-> 0], fc)

\* Concrete.get_stress without the plateau: zero beyond ec2
Concrete_stress_at_NoPlateau(m, s) ==
    LET X == s * StrainUnitMicro
    IN IF m.ec2 <= X /\ X <= 0
       THEN (CASE m.n = 2 * NScale ->
                -1 * Quot(m.fc * (Pow2(m.ec2) - Pow2(m.ec2 - X)), Pow2(m.ec2)))
       ELSE 0

\* one element of Concrete.get_stress: np.select over the three conditions,
\* for the integer exponent n = 2 of the low-strength regime
Concrete_stress_at(m, s) ==
    LET X == s * StrainUnitMicro
    IN IF m.ec2 <= X /\ X <= 0
       THEN (CASE m.n = 2 * NScale ->
                -1 * Quot(m.fc * (Pow2(m.ec2) - Pow2(m.ec2 - X)), Pow2(m.ec2)))
       ELSE IF m.ecu <= X /\ X <= m.ec2 THEN -m.fc
       ELSE IF X <= m.ecu THEN 0
       ELSE 0

\* one element of Concrete.get_stiff, for n = 2; per strain unit
Concrete_stiff_at(m, s) ==
    LET X == s * StrainUnitMicro
    IN IF m.ec2 <= X /\ X <= 0
       THEN (CASE m.n = 2 * NScale ->
                -1 * Quot(m.fc * 2 * (m.ec2 - X) * StrainUnitMicro, Pow2(m.ec2)))
       ELSE IF X <= m.ec2 THEN 0
       ELSE 0

\* Concrete.get_stress: np.select keeps the shape of the strain
Concrete_get_stress(m, x) ==
    IF x.kind = "array"
    THEN Array([i \in 1..Len(x.v) |-> Concrete_stress_at(m, x.v[i])])
    ELSE Scalar(Concrete_stress_at(m, Val(x)))

\* Concrete.get_stiff
Concrete_get_stiff(m, x) ==
    IF x.kind = "array"
    THEN Array([i \in 1..Len(x.v) |-> Concrete_stiff_at(m, x.v[i])])
    ELSE Scalar(Concrete_stiff_at(m, Val(x)))

(***************************************************************************)
(* material.py: SteelIdeal                                                 *)
(***************************************************************************)
\* a value with the shape of the strain x it was computed from
Shaped(x, val) == IF x.kind = "array" THEN Array(<<val>>) ELSE Scalar(val)

\* `a <= strain <= b` on an ndarray of more than one element: bool() of the
\* comparison raises ValueError (the truth value of an array is ambiguous)
Ambiguous(x) == x.kind = "array" /\ Len(x.v) > 1

\* SteelIdeal.fy setter (inherited by SteelHardening): _fy is stored first,
\* then yield_strain = new_fy / self.young, which may raise
SteelIdeal_set_fy(m, new_fy) ==
    LET stored == [m EXCEPT !.fy = new_fy]
    IN IF m.young = 0
       THEN <<stored, Raise("ZeroDivisionError")>>
       ELSE <<[stored EXCEPT !.yield_strain = Quot(new_fy, m.young)],
              Returned(0)>>

\* SteelIdeal.__init__: young, then fy through its setter, then ultimate_strain
SteelIdeal(young, fy, ultimate_strain) ==
    LET r == SteelIdeal_set_fy([type |-> "SteelIdeal", young |-> young,
                                fy |-> 0, yield_strain |-> 0,
                                ultimate_strain |-> 0], fy)
    IN IF r[2].kind = "raise" THEN r
       ELSE <<[r[1] EXCEPT !.ultimate_strain = ultimate_strain], r[2]>>

\* SteelIdeal.get_stiff
SteelIdeal_get_stiff(m, x) ==
    IF Ambiguous(x) THEN Raise("ValueError")
    ELSE LET s == x.v[1]
         IN IF -m.yield_strain <= s /\ s <= m.yield_strain
            THEN Scalar(m.young)
            ELSE Scalar(0)

\* SteelIdeal.get_stress with a plateau that does not follow the sign of the
\* strain
SteelIdeal_get_stress_Unsigned(m, x) ==
    IF Ambiguous(x) THEN Raise("ValueError")
    ELSE LET s == x.v[1]
         IN IF -m.yield_strain <= s /\ s <= m.yield_strain
            THEN Shaped(x, m.young * s)
            ELSE IF -m.ultimate_strain <= s /\ s <= m.ultimate_strain
            THEN Shaped(x, m.fy)
            ELSE Scalar(0)

\* SteelIdeal.get_stress
SteelIdeal_get_stress(m, x) ==
    IF Ambiguous(x) THEN Raise("ValueError")
    ELSE LET s == x.v[1]
         IN IF -m.yield_strain <= s /\ s <= m.yield_strain
            THEN Shaped(x, m.young * s)
            ELSE IF -m.ultimate_strain <= s /\ s <= m.ultimate_strain
            THEN (IF s = 0 THEN Raise("ZeroDivisionError")
                  ELSE Shaped(x, Quot(m.fy * s, Abs(s))))
            ELSE Scalar(0)

(***************************************************************************)
(* material.py: SteelHardening                                             *)
(***************************************************************************)
\* SteelHardening.ft setter: _ft is stored first, then hardening_stiffness
SteelHardening_set_ft(m, new_ft) ==
    LET stored == [m EXCEPT !.ft = new_ft]
    IN IF m.ultimate_strain - m.yield_strain = 0
       THEN <<stored, Raise("ZeroDivisionError")>>
       ELSE <<[stored EXCEPT !.hardening_stiffness =
                   Quot(new_ft - m.fy, m.ultimate_strain - m.yield_strain)],
              Returned(0)>>

\* SteelHardening.__init__: young, fy (setter), ultimate_strain, ft (setter)
SteelHardening(young, fy, ft, ultimate_strain) ==
    LET r == SteelIdeal_set_fy([type |-> "SteelHardening", young |-> young,
                                fy |-> 0, yield_strain |-> 0,
                                ultimate_strain |-> 0, ft |-> 0,
                                hardening_stiffness |-> 0], fy)
    IN IF r[2].kind = "raise" THEN r
       ELSE SteelHardening_set_ft(
                [r[1] EXCEPT !.ultimate_strain = ultimate_strain], ft)

\* SteelHardening.get_stiff
SteelHardening_get_stiff(m, x) ==
    IF Ambiguous(x) THEN Raise("ValueError")
    ELSE LET s == x.v[1]
         IN IF -m.yield_strain <= s /\ s <= m.yield_strain
            THEN Scalar(m.young)
            ELSE IF m.yield_strain < s /\ s < m.ultimate_strain
            THEN Scalar(m.hardening_stiffness)
            ELSE Scalar(0)

\* SteelHardening.get_stress
SteelHardening_get_stress(m, x) ==
    IF Ambiguous(x) THEN Raise("ValueError")
    ELSE LET s == x.v[1]
         IN IF -m.yield_strain <= s /\ s <= m.yield_strain
            THEN Shaped(x, m.young * s)
            ELSE IF m.yield_strain < s /\ s < m.ultimate_strain
            THEN Shaped(x, m.fy + (s - m.yield_strain) * m.hardening_stiffness)
            ELSE IF -m.ultimate_strain <= s /\ s <= -m.yield_strain
            THEN (IF s = 0 THEN Raise("ZeroDivisionError")
                  ELSE Shaped(x, Quot(m.fy * s, Abs(s))))
            ELSE Scalar(0)

(***************************************************************************)
(* Material.get_stiff / Material.get_stress: dispatch on the class         *)
(***************************************************************************)
get_stiff(m, x) ==
    CASE m.type = "Linear" -> Linear_get_stiff(m, x)
      [] m.type = "Concrete" -> Concrete_get_stiff(m, x)
      [] m.type = "SteelIdeal" -> SteelIdeal_get_stiff(m, x)
      [] m.type = "SteelHardening" -> SteelHardening_get_stiff(m, x)

get_stress(m, x) ==
    CASE m.type = "Linear" -> Linear_get_stress(m, x)
      [] m.type = "Concrete" -> Concrete_get_stress(m, x)
      [] m.type = "SteelIdeal" -> SteelIdeal_get_stress(m, x)
      [] m.type = "SteelHardening" -> SteelHardening_get_stress(m, x)

(***************************************************************************)
(* geometry.py: RectSection                                                *)
(***************************************************************************)
\* math.pi as the fraction PiMath / PiDen, and the literal 3.141592 of the
\* diameter setter as PiLiteral / PiDen: the literal is the smaller of the two
PiDen == 7
PiMath == 22
PiLiteral == 21
\* area units per square length unit: pi * d**2 / 4 is an integer for integer d
AreaScale == 4 * PiDen

\* RectSection.area: width * height
Rect_area(f) == AreaScale * f.width * f.height

\* RectSection._discretize
Rect_discretize(f, n) ==
    [f EXCEPT !.n_discret = n,
              !.h_discret = [j \in 1..n |->
                                Quot(f.height + 2 * f.height * (j - 1), 2 * n)],
              !.area_discret = Quot(Rect_area(f), n)]

\* RectSection.__init__
RectSection(width, height, material, center, n_discret) ==
    Rect_discretize([type |-> "Rect", width |-> width, height |-> height,
                     center |-> center, material |-> material,
                     n_discret |-> 0, h_discret |-> <<>>, area_discret |-> 0],
                    n_discret)

\* RectSection.width setter: _width is stored and the layer area recomputed
Rect_set_width(f, new_width) ==
    LET stored == [f EXCEPT !.width = new_width]
    IN [stored EXCEPT !.area_discret = Quot(Rect_area(stored), f.n_discret)]

\* a height setter that stores _height and recomputes the layer area, but
\* leaves the layers where they were
Rect_set_height_Stale(f, new_height) ==
    LET stored == [f EXCEPT !.height = new_height]
    IN [stored EXCEPT !.area_discret = Quot(Rect_area(stored), f.n_discret)]

\* RectSection.height setter: _height is stored, the layers are laid out
\* again and the layer area recomputed
Rect_set_height(f, new_height) ==
    LET stored == Rect_discretize([f EXCEPT !.height = new_height],
                                  f.n_discret)
    IN [stored EXCEPT !.area_discret = Quot(Rect_area(stored), f.n_discret)]

\* RectSection.boundary
Rect_boundary(f) ==
    <<<<f.center[1] - Quot(f.width, 2), f.center[2] - Quot(f.height, 2)>>,
      <<f.center[1] + Quot(f.width, 2), f.center[2] + Quot(f.height, 2)>>>>

\* RectSection.get_e0_sec
Rect_get_e0_sec(f, e0, k, center) == e0 + k * (center - f.center[2])

\* RectSection.get_strains: one strain per layer
Rect_get_strains(f, e0, k) ==
    [j \in 1..f.n_discret |-> e0 + k * (Quot(f.height, 2) - f.h_discret[j])]

\* the distance of each layer from the reference height `center`
Rect_dist(f, center) ==
    [j \in 1..f.n_discret |->
        (center - f.center[2]) + (Quot(f.height, 2) - f.h_discret[j])]

\* RectSection.get_normal_resistance_discrete: the material law on the array
\* of layer strains, times the layer area
Rect_get_normal_resistance_discrete(f, e0, k, center) ==
    LET strains == Rect_get_strains(f, Rect_get_e0_sec(f, e0, k, center), k)
        normal == get_stress(f.material, Array(strains)).v
    IN [j \in 1..f.n_discret |-> normal[j] * f.area_discret]

\* RectSection.get_normal_resistance
Rect_get_normal_resistance(f, e0, k, center) ==
    SeqSum(Rect_get_normal_resistance_discrete(f, e0, k, center))

\* RectSection.get_moment_resistance
Rect_get_moment_resistance(f, e0, k, center) ==
    LET normal == Rect_get_normal_resistance_discrete(f, e0, k, center)
        dist == Rect_dist(f, center)
    IN SeqSum([j \in 1..f.n_discret |-> normal[j] * dist[j]])

\* RectSection.get_normal_stiff_discrete
Rect_get_normal_stiff_discrete(f, e0, k, center) ==
    LET strains == Rect_get_strains(f, Rect_get_e0_sec(f, e0, k, center), k)
        normal == get_stiff(f.material, Array(strains)).v
    IN [j \in 1..f.n_discret |-> normal[j] * f.area_discret]

\* RectSection.get_stiffness: <<a00, a01, a11>> of [[a00, a01], [a01, a11]]
Rect_get_stiffness(f, e0, k, center) ==
    LET normal == Rect_get_normal_stiff_discrete(f, e0, k, center)
        dist == Rect_dist(f, center)
    IN <<SeqSum(normal),
         SeqSum([j \in 1..f.n_discret |-> normal[j] * dist[j]]),
         SeqSum([j \in 1..f.n_discret |-> normal[j] * dist[j] * dist[j]])>>

(***************************************************************************)
(* geometry.py: Rebar and Tendon                                           *)
(***************************************************************************)
\* Rebar.__init__ for diameter >= 0: the diameter setter, then _area is
\* overwritten with math.pi * diameter**2 / 4
Rebar(diameter, material, center) ==
    [type |-> "Rebar", material |-> material, center |-> center,
     diameter |-> diameter,
     area |-> Quot(PiMath * diameter * diameter * AreaScale, 4 * PiDen)]

\* Tendon.__init__
Tendon(diameter, material, initial_strain, center, strain_ULS) ==
    [type |-> "Tendon", material |-> material, center |-> center,
     diameter |-> diameter,
     area |-> Quot(PiMath * diameter * diameter * AreaScale, 4 * PiDen),
     initial_strain |-> initial_strain, strain_ULS |-> strain_ULS]

\* Rebar.diameter setter (inherited by Tendon): _area is derived with the
\* literal 3.141592.  The result is <<object after the statement, outcome>>.
Rebar_set_diameter(f, new_diameter) ==
    IF new_diameter >= 0
    THEN <<[f EXCEPT !.diameter = new_diameter,
                     !.area = Quot(PiLiteral * new_diameter * new_diameter
                                     * AreaScale, 4 * PiDen)],
           Returned(0)>>
    ELSE <<f, Raise("Exception")>>

\* an area setter that stores _area before it looks at the sign
Rebar_set_area_StoresFirst(f, new_area) ==
    IF new_area >= 0
    THEN <<[f EXCEPT !.area = new_area,
                     !.diameter = SqrtQuot(new_area * 4 * PiDen,
                                           AreaScale * PiMath)],
           Returned(0)>>
    ELSE <<[f EXCEPT !.area = new_area], Raise("Exception")>>

\* Rebar.area setter: _diameter = (new_area * 4 / pi) ** 0.5
Rebar_set_area(f, new_area) ==
    IF new_area >= 0
    THEN <<[f EXCEPT !.area = new_area,
                     !.diameter = SqrtQuot(new_area * 4 * PiDen,
                                           AreaScale * PiMath)],
           Returned(0)>>
    ELSE <<f, Raise("Exception")>>

\* Rebar.boundary
Rebar_boundary(f) == <<<<f.center[1], f.center[2]>>>>

\* Rebar.get_normal_stress
Rebar_get_normal_stress(f, strain) ==
    f.area * Val(get_stress(f.material, Scalar(strain)))

\* Tendon.get_normal_stress without the rupture test
Tendon_get_normal_stress_NoRupture(f, strain) ==
    f.area * Val(get_stress(f.material, Scalar(strain + f.initial_strain)))

\* Tendon.get_normal_stress
Tendon_get_normal_stress(f, strain) ==
    IF strain > f.strain_ULS THEN 0
    ELSE f.area * Val(get_stress(f.material, Scalar(strain + f.initial_strain)))

\* get_normal_stress as the object's class resolves it
Bar_get_normal_stress(f, strain) ==
    IF f.type = "Tendon" THEN Tendon_get_normal_stress(f, strain)
    ELSE Rebar_get_normal_stress(f, strain)

\* Rebar.get_normal_resistance (inherited by Tendon)
Rebar_get_normal_resistance(f, e0, k, center) ==
    Bar_get_normal_stress(f, e0 + k * (center - f.center[2]))

\* Rebar.get_moment_resistance (inherited by Tendon)
Rebar_get_moment_resistance(f, e0, k, center) ==
    Bar_get_normal_stress(f, e0 + k * (center - f.center[2]))
        * (center - f.center[2])

\* Rebar.get_stiffness
Rebar_get_stiffness(f, e0, k, center) ==
    LET strain == e0 + k * (center - f.center[2])
        normal == f.area * Val(get_stiff(f.material, Scalar(strain)))
        dist == center - f.center[2]
    IN <<normal, normal * dist, normal * dist * dist>>

\* Tendon.get_stiffness
Tendon_get_stiffness(f, e0, k, center) ==
    LET strain == e0 + k * (center - f.center[2])
    IN IF strain > f.strain_ULS THEN <<0, 0, 0>>
       ELSE LET normal == f.area * Val(get_stiff(f.material,
                                         Scalar(strain + f.initial_strain)))
                dist == center - f.center[2]
            IN <<normal, normal * dist, normal * dist * dist>>

(***************************************************************************)
(* Geometry: dispatch on the class of the fiber                            *)
(***************************************************************************)
Fiber_area(f) == IF f.type = "Rect" THEN Rect_area(f) ELSE f.area

Fiber_boundary(f) ==
    IF f.type = "Rect" THEN Rect_boundary(f) ELSE Rebar_boundary(f)

get_normal_resistance(f, e0, k, center) ==
    IF f.type = "Rect" THEN Rect_get_normal_resistance(f, e0, k, center)
    ELSE Rebar_get_normal_resistance(f, e0, k, center)

get_moment_resistance(f, e0, k, center) ==
    IF f.type = "Rect" THEN Rect_get_moment_resistance(f, e0, k, center)
    ELSE Rebar_get_moment_resistance(f, e0, k, center)

get_stiffness(f, e0, k, center) ==
    CASE f.type = "Rect" -> Rect_get_stiffness(f, e0, k, center)
      [] f.type = "Rebar" -> Rebar_get_stiffness(f, e0, k, center)
      [] f.type = "Tendon" -> Tendon_get_stiffness(f, e0, k, center)

\* isinstance(section, geometry.Rebar): a Tendon is a Rebar
IsRebar(f) == f.type \in {"Rebar", "Tendon"}

(***************************************************************************)
(* section.py: Section, its centroid and its resultants                    *)
(***************************************************************************)
\* the values self.centroid takes: a pair of numbers, numpy's nan pair, None
NumCentroid(x, y) == [tag |-> "num", x |-> x, y |-> y]
NanCentroid == [tag |-> "nan", x |-> 0, y |-> 0]
NoneCentroid == [tag |-> "None", x |-> 0, y |-> 0]

\* the defaults of Section.__init__ (lines 20-24) on the grids:
\* residual_e0 = 10, max_increment_e0 = 0.0005, n_ite_e0 = 30,
\* tolerance_check_section = 0.01
DefaultResidualE0 == 1000
DefaultMaxIncrementE0 == 1
DefaultNIteE0 == 30
DefaultToleranceCheckSection == 1
DefaultConfig ==
    [residual_e0 |-> DefaultResidualE0,
     max_increment_e0 |-> DefaultMaxIncrementE0,
     n_ite_e0 |-> DefaultNIteE0,
     tolerance_check_section |-> DefaultToleranceCheckSection]

\* the weight of a fiber in the centroid: area * material.get_stiff()
Weight(f) == Fiber_area(f) * Val(get_stiff(f.material, Scalar(0)))

\* Section._compute_centroid, the value stored in self.centroid (line 34):
\* np.sum(weighted * x) / np.sum(weighted); weights are never negative, so a
\* zero sum of weights is 0.0 / 0.0, which numpy evaluates to nan
compute_centroid(sec) ==
    LET n == Len(sec)
        sw == SeqSum([i \in 1..n |-> Weight(sec[i])])
        swx == SeqSum([i \in 1..n |-> Weight(sec[i]) * sec[i].center[1]])
        swy == SeqSum([i \in 1..n |-> Weight(sec[i]) * sec[i].center[2]])
    IN IF sw = 0 THEN NanCentroid
       ELSE NumCentroid(Quot(swx, sw), Quot(swy, sw))

\* Section.set_rebar_centroid: <<area_rebar, centroid_rebar>>
set_rebar_centroid(sec, old_centroid_rebar) ==
    LET n == Len(sec)
        area == SeqSum([i \in 1..n |->
                          IF IsRebar(sec[i]) THEN sec[i].area ELSE 0])
        sum_moments_y ==
            SeqSum([i \in 1..n |->
                      IF IsRebar(sec[i]) THEN sec[i].area * sec[i].center[2]
                      ELSE 0])
    IN <<area, IF area > 0 THEN Quot(sum_moments_y, area)
               ELSE old_centroid_rebar>>

\* Section.get_normal_res with self.centroid[1] = cy
get_normal_res(sec, cy, e0, k) ==
    SeqSum([i \in 1..Len(sec) |-> get_normal_resistance(sec[i], e0, k, cy)])

\* Section.get_moment_res with self.centroid[1] = cy
get_moment_res(sec, cy, e0, k) ==
    SeqSum([i \in 1..Len(sec) |-> get_moment_resistance(sec[i], e0, k, cy)])

\* Section.get_stiff with self.centroid[1] = cy: <<a00, a01, a11>>
get_section_stiff(sec, cy, e0, k) ==
    LET K == [i \in 1..Len(sec) |-> get_stiffness(sec[i], e0, k, cy)]
    IN <<SeqSum([i \in 1..Len(sec) |-> K[i][1]]),
         SeqSum([i \in 1..Len(sec) |-> K[i][2]]),
         SeqSum([i \in 1..Len(sec) |-> K[i][3]])>>

\* self.centroid[1] is read once per fiber: None is not subscriptable
CentroidUnreadable(sec, c) == sec # <<>> /\ c.tag = "None"

(***************************************************************************)
(* section.py: the solvers get_e0, check_section, get_moment_curvature     *)
(***************************************************************************)
\* the floor 1e-10 on the axial stiffness in get_e0: on the grid, the smallest
\* positive stiffness
StiffFloor == 1

Min(a, b) == IF a < b THEN a ELSE b

\* the residual of get_e0 (line 67)
get_e0_residual(target_normal, normal_int) ==
    Abs(Abs(target_normal) - Abs(normal_int))

\* lines 67-77 of get_e0 with the floor test handing back e0 instead of
\* raising
get_e0_update_FloorReturns(sec, conf, e0, target_normal, normal_int, stiff) ==
    LET residual == get_e0_residual(target_normal, normal_int)
        increment == Quot(target_normal - normal_int, stiff)
    IN IF residual < conf.residual_e0
       THEN [exit |-> "return", res |-> Returned(e0), e0 |-> e0]
       ELSE IF sec = <<>>
       THEN [exit |-> "raise", res |-> Raise("IndexError"), e0 |-> e0]
       ELSE IF stiff < StiffFloor
       THEN [exit |-> "return", res |-> Returned(e0), e0 |-> e0]
       ELSE [exit |-> "continue", res |-> NoCall,
             e0 |-> e0 + Sign(increment)
                           * Min(Abs(increment), conf.max_increment_e0)]

\* lines 67-77 of get_e0 with the whole raw increment applied
get_e0_update_Unclamped(sec, conf, e0, target_normal, normal_int, stiff) ==
    LET residual == get_e0_residual(target_normal, normal_int)
        increment == Quot(target_normal - normal_int, stiff)
    IN IF residual < conf.residual_e0
       THEN [exit |-> "return", res |-> Returned(e0), e0 |-> e0]
       ELSE IF sec = <<>>
       THEN [exit |-> "raise", res |-> Raise("IndexError"), e0 |-> e0]
       ELSE IF stiff < StiffFloor
       THEN [exit |-> "raise", res |-> Raise("ZeroDivisionError"), e0 |-> e0]
       ELSE [exit |-> "continue", res |-> NoCall, e0 |-> e0 + increment]

\* lines 67-77 of get_e0 once normal_int and the axial stiffness are known:
\* the call leaves the loop ("return", "raise") or goes on with a new e0
get_e0_update(sec, conf, e0, target_normal, normal_int, stiff) ==
    LET residual == get_e0_residual(target_normal, normal_int)
        increment == Quot(target_normal - normal_int, stiff)
    IN IF residual < conf.residual_e0
       THEN [exit |-> "return", res |-> Returned(e0), e0 |-> e0]
       \* K.sum(axis=0) of an empty array is a scalar: [0, 0] fails on it
       ELSE IF sec = <<>>
       THEN [exit |-> "raise", res |-> Raise("IndexError"), e0 |-> e0]
       ELSE IF stiff < StiffFloor
       THEN [exit |-> "raise", res |-> Raise("ZeroDivisionError"), e0 |-> e0]
       ELSE [exit |-> "continue", res |-> NoCall,
             e0 |-> e0 + Sign(increment)
                           * Min(Abs(increment), conf.max_increment_e0)]

\* one pass through the body of the loop of Section.get_e0 (lines 65-77)
get_e0_step(sec, c, conf, k, e0, target_normal) ==
    IF CentroidUnreadable(sec, c)
    THEN [exit |-> "raise", res |-> Raise("TypeError"), e0 |-> e0]
    ELSE CHOOSE r \in
           {get_e0_update(sec, conf, e0, target_normal, normal_int, stiff) :
              normal_int \in {get_normal_res(sec, c.y, e0, k)},
              stiff \in {get_section_stiff(sec, c.y, e0, k)[1]}} : TRUE

\* the end of get_e0 when range(self.n_ite_e0) is used up (line 79)
get_e0_exhausted(e0) ==
    [exit |-> "range", res |-> ReturnedNone, e0 |-> e0]

\* Section.get_e0 from its i-th iteration on
RECURSIVE get_e0_loop(_, _, _, _, _, _, _)
get_e0_loop(sec, c, conf, k, e0, target_normal, i) ==
    IF i >= conf.n_ite_e0 THEN get_e0_exhausted(e0)
    ELSE CHOOSE r \in
           {IF o.exit = "continue"
            THEN get_e0_loop(sec, c, conf, k, o.e0, target_normal, i + 1)
            ELSE o : o \in {get_e0_step(sec, c, conf, k, e0, target_normal)}} :
           TRUE

\* Section.get_e0(k, e0, target_normal)
get_e0(sec, c, conf, k, e0, target_normal) ==
    get_e0_loop(sec, c, conf, k, e0, target_normal, 0)

\* the pair check_section returns, and the (None, None) of its last line
ReturnedPair(e0, k) == [kind |-> "pair", v |-> <<e0, k>>, exc |-> "-"]
ReturnedNonePair == [kind |-> "None,None", v |-> <<>>, exc |-> "-"]

\* a convergence test that looks at the axial residual only
check_section_converged_NormalOnly(r0, r1, tolerance) ==
    Pow2(r0) < Pow2(tolerance)

\* np.linalg.norm(residual) < self.tolerance_check_section (line 91)
check_section_converged(r0, r1, tolerance) ==
    Pow2(r0) + Pow2(r1) < Pow2(tolerance)

\* np.linalg.det of [[a00, a01], [a01, a11]]
det(stiff) == stiff[1] * stiff[3] - stiff[2] * stiff[2]

\* lines 89-101 of check_section with the determinant tested before the
\* norm of the residual
check_section_update_StiffFirst(sec, conf, target_normal, target_moment, e0, k, normal, moment, stiff) ==
    LET r0 == target_normal - normal
        r1 == target_moment - moment
        d == det(stiff)
    IN IF sec = <<>>
       THEN [exit |-> "raise", res |-> Raise("LinAlgError"),
             e0 |-> e0, k |-> k]
       ELSE IF d < conf.tolerance_check_section
       THEN [exit |-> "break", res |-> ReturnedNonePair, e0 |-> e0, k |-> k]
       ELSE IF check_section_converged(r0, r1, conf.tolerance_check_section)
       THEN [exit |-> "return", res |-> ReturnedPair(e0, k),
             e0 |-> e0, k |-> k]
       ELSE [exit |-> "continue", res |-> NoCall,
             e0 |-> e0 + Quot(stiff[3] * r0 - stiff[2] * r1, d),
             k |-> k + Quot(stiff[1] * r1 - stiff[2] * r0, d)]

\* lines 89-101 of check_section once the resultants and the stiffness
\* matrix are known: "return" the pair, "break" to the last line, "raise",
\* or go on with the Newton update
check_section_update(sec, conf, target_normal, target_moment, e0, k, normal, moment, stiff) ==
    LET r0 == target_normal - normal
        r1 == target_moment - moment
        d == det(stiff)
    IN IF check_section_converged(r0, r1, conf.tolerance_check_section)
       THEN [exit |-> "return", res |-> ReturnedPair(e0, k),
             e0 |-> e0, k |-> k]
       \* np.linalg.det of the scalar 0.0 an empty section sums to
       ELSE IF sec = <<>>
       THEN [exit |-> "raise", res |-> Raise("LinAlgError"),
             e0 |-> e0, k |-> k]
       ELSE IF d < conf.tolerance_check_section
       THEN [exit |-> "break", res |-> ReturnedNonePair, e0 |-> e0, k |-> k]
       \* inv(stiff) = [[a11, -a01], [-a01, a00]] / det
       ELSE [exit |-> "continue", res |-> NoCall,
             e0 |-> e0 + Quot(stiff[3] * r0 - stiff[2] * r1, d),
             k |-> k + Quot(stiff[1] * r1 - stiff[2] * r0, d)]

\* one pass through the body of the loop of Section.check_section
\* (lines 86-101)
check_section_step(sec, c, conf, target_normal, target_moment, e0, k) ==
    IF CentroidUnreadable(sec, c)
    THEN [exit |-> "raise", res |-> Raise("TypeError"), e0 |-> e0, k |-> k]
    ELSE CHOOSE r \in
           {check_section_update(sec, conf, target_normal, target_moment,
                                 e0, k, normal, moment, stiff) :
              normal \in {get_normal_res(sec, c.y, e0, k)},
              moment \in {get_moment_res(sec, c.y, e0, k)},
              stiff \in {get_section_stiff(sec, c.y, e0, k)}} : TRUE

\* the end of check_section when range(n_ite) is used up (line 102)
check_section_exhausted(e0, k) ==
    [exit |-> "range", res |-> ReturnedNonePair, e0 |-> e0, k |-> k]

\* Section.check_section from its i-th iteration on: how it ends and after
\* how many passes through the loop body
RECURSIVE check_section_loop(_, _, _, _, _, _, _, _, _)
check_section_loop(sec, c, conf, target_normal, target_moment, n_ite, e0, k, i) ==
    IF i >= n_ite
    THEN [exit |-> "range", res |-> ReturnedNonePair, n |-> i]
    ELSE CHOOSE r \in
           {IF o.exit = "continue"
            THEN check_section_loop(sec, c, conf, target_normal,
                                    target_moment, n_ite, o.e0, o.k, i + 1)
            ELSE [exit |-> o.exit, res |-> o.res, n |-> i + 1] :
              o \in {check_section_step(sec, c, conf, target_normal,
                                        target_moment, e0, k)}} : TRUE

\* Section.check_section(target_normal, target_moment, n_ite)
check_section(sec, c, conf, target_normal, target_moment, n_ite) ==
    check_section_loop(sec, c, conf, target_normal, target_moment, n_ite,
                       0, 0, 0)

\* np.linspace(0, k_max, n_points)
linspace(k_max, n_points) ==
    [i \in 1..n_points |->
        IF n_points = 1 THEN 0 ELSE Quot(k_max * (i - 1), n_points - 1)]

\* how one get_e0 solve of a sweep ended: "return", "range" (None came back)
\* or the name of the exception
SolveLabel(o) == IF o.exit = "raise" THEN o.res.exc ELSE o.exit

\* lines 190-194 of get_moment_curvature once get_e0 has ended with o: the
\* sweep goes on with a moment written, or the exception leaves the method
sample_outcome(sec, c, ki, e0, o) ==
    CASE o.exit = "return" ->
           [exit |-> "continue", res |-> NoCall, e0 |-> Val(o.res),
            moment |-> get_moment_res(sec, c.y, Val(o.res), ki),
            solve |-> SolveLabel(o)]
      \* e0 = None: every fiber fails on None + k * (...)
      [] o.exit = "range" /\ sec # <<>> ->
           [exit |-> "raise", res |-> Raise("TypeError"), e0 |-> e0,
            moment |-> 0, solve |-> SolveLabel(o)]
      \* no fiber reads e0: the moment is the sum over nothing
      [] o.exit = "range" /\ sec = <<>> ->
           [exit |-> "continue", res |-> NoCall, e0 |-> e0,
            moment |-> 0, solve |-> SolveLabel(o)]
      \* except ZeroDivisionError: moment[i] = 0
      [] o.exit = "raise" /\ o.res.exc = "ZeroDivisionError" ->
           [exit |-> "continue", res |-> NoCall, e0 |-> e0,
            moment |-> 0, solve |-> SolveLabel(o)]
      [] o.exit = "raise" /\ o.res.exc # "ZeroDivisionError" ->
           [exit |-> "raise", res |-> o.res, e0 |-> e0,
            moment |-> 0, solve |-> SolveLabel(o)]

\* one pass through the body of the loop of Section.get_moment_curvature
\* (lines 189-194) for the curvature ki, starting from e0
get_moment_curvature_step(sec, c, conf, ki, e0, normal_force) ==
    CHOOSE r \in {sample_outcome(sec, c, ki, e0, o) :
                    o \in {get_e0(sec, c, conf, ki, e0, normal_force)}} : TRUE

\* every boundary point of every fiber, in the order of the two loops of
\* get_section_boundary (lines 289-290)
RECURSIVE boundary_points(_)
boundary_points(sec) ==
    IF sec = <<>> THEN <<>>
    ELSE Fiber_boundary(Head(sec)) \o boundary_points(Tail(sec))

\* the four comparisons of get_section_boundary on one point (lines 291-298);
\* box is <<x0, y0, x1, y1>>
RECURSIVE boundary_scan(_, _)
boundary_scan(bounds, box) ==
    IF bounds = <<>> THEN box
    ELSE LET bound == Head(bounds)
         IN boundary_scan(Tail(bounds),
                          <<IF bound[1] < box[1] THEN bound[1] ELSE box[1],
                            IF bound[2] < box[2] THEN bound[2] ELSE box[2],
                            IF bound[1] > box[3] THEN bound[1] ELSE box[3],
                            IF bound[2] > box[4] THEN bound[2] ELSE box[4]>>)

\* Section.get_section_boundary: x0, y0, x1, y1 start at 0 (lines 285-288);
\* the result is <<<<x0, y0>>, <<x1, y1>>>>
get_section_boundary(sec) ==
    LET box == boundary_scan(boundary_points(sec), <<0, 0, 0, 0>>)
    IN <<<<box[1], box[2]>>, <<box[3], box[4]>>>>

\* Section.get_section_height
get_section_height(sec) ==
    LET bound == get_section_boundary(sec)
    IN bound[2][2] - bound[1][2]

\* Section.get_moment_curvature from its i-th sample on: the moments, or the
\* exception that left the method
RECURSIVE get_moment_curvature_from(_, _, _, _, _, _, _, _)
get_moment_curvature_from(sec, c, conf, k, normal_force, i, e0, moment) ==
    IF i > Len(k) THEN [exit |-> "return", res |-> Returned(0), moment |-> moment]
    ELSE CHOOSE r \in
           {IF o.exit = "continue"
            THEN get_moment_curvature_from(sec, c, conf, k, normal_force,
                                           i + 1, o.e0,
                                           Append(moment, o.moment))
            ELSE [exit |-> "raise", res |-> o.res, moment |-> moment] :
              o \in {get_moment_curvature_step(sec, c, conf, k[i], e0,
                                               normal_force)}} : TRUE

\* moments.max() / moments.min()
SeqMax(s) == CHOOSE m \in {s[i] : i \in 1..Len(s)} : \A i \in 1..Len(s) : s[i] <= m
SeqMin(s) == CHOOSE m \in {s[i] : i \in 1..Len(s)} : \A i \in 1..Len(s) : s[i] >= m

\* moments.argmax() / moments.argmin(): the first index of the value
FirstIndex(s, v) == CHOOSE i \in 1..Len(s) : s[i] = v /\ \A j \in 1..(i - 1) : s[j] # v

\* et, eb = -4e-3, 15e-3 in strain units, the 10e-3 of the e0_start guess,
\* and the n_points = 5 of the coarse sweep (lines 118, 129, 124)
MaxMomentEt == -8
MaxMomentEb == 30
MaxMomentE0Guess == 20
CoarsePoints == 5

\* a value of get_max_moment's local e0_start: a number, or None
E0Num(x) == [none |-> FALSE, x |-> x]
E0None == [none |-> TRUE, x |-> 0]

\* lines 116-138 of get_max_moment: the interval, the extreme of the coarse
\* sweep and the start value, or the exception that left the method
max_moment_start(sec, c, conf, is_inverted) ==
    LET bound == get_section_boundary(sec)
        height == bound[2][2]
        bottom == bound[1][2]
        failed(e) == [exit |-> "raise", res |-> Raise(e), max_curvature |-> 0,
                      min_curvature |-> 0, max_moment |-> 0,
                      e0_start |-> E0Num(0)]
    IN IF height - bottom = 0 THEN failed("ZeroDivisionError")
       ELSE LET kmax == Quot(MaxMomentEb - MaxMomentEt, height - bottom)
                max_curvature == IF is_inverted THEN -1 * kmax ELSE kmax
                curvatures == linspace(max_curvature, CoarsePoints)
            IN CHOOSE r \in
                 {IF sweep.exit = "raise" THEN failed(sweep.res.exc)
                  ELSE LET moments == sweep.moment
                           max_moment == IF is_inverted THEN SeqMin(moments)
                                         ELSE SeqMax(moments)
                           index == FirstIndex(moments, max_moment)
                           min_curvature == curvatures[index]
                           guess == Quot(MaxMomentE0Guess
                                           - min_curvature * (c.y - bottom), 10)
                           e0_start == IF is_inverted THEN -1 * guess ELSE guess
                       IN CHOOSE q \in
                            {CASE o.exit = "return" ->
                                    [exit |-> "continue", res |-> NoCall,
                                     max_curvature |-> max_curvature,
                                     min_curvature |-> min_curvature,
                                     max_moment |-> max_moment,
                                     e0_start |-> E0Num(Val(o.res))]
                               [] o.exit = "range" ->
                                    [exit |-> "continue", res |-> NoCall,
                                     max_curvature |-> max_curvature,
                                     min_curvature |-> min_curvature,
                                     max_moment |-> max_moment,
                                     e0_start |-> E0None]
                               [] o.exit = "raise"
                                    /\ o.res.exc = "ZeroDivisionError" ->
                                    [exit |-> "continue", res |-> NoCall,
                                     max_curvature |-> max_curvature,
                                     min_curvature |-> min_curvature,
                                     max_moment |-> max_moment,
                                     e0_start |-> E0Num(0)]
                               [] o.exit = "raise"
                                    /\ o.res.exc # "ZeroDivisionError" ->
                                    failed(o.res.exc) :
                               o \in {get_e0(sec, c, conf, min_curvature,
                                             e0_start, 0)}} : TRUE :
                    sweep \in {get_moment_curvature_from(sec, c, conf,
                                   curvatures, 0, 1, 0, <<>>)}} : TRUE

\* lines 142-149 of get_max_moment: the solve at the midpoint.  "moment" with
\* the moment and e0, or "raise"
max_moment_solve(sec, c, conf, curvature, e0_start) ==
    IF e0_start.none
    THEN [exit |-> "raise", res |-> Raise("TypeError"), moment |-> 0,
          e0 |-> 0, solve |-> "TypeError"]
    ELSE CHOOSE r \in
           {CASE o.exit = "return" ->
                   [exit |-> "moment", res |-> NoCall,
                    moment |-> get_moment_res(sec, c.y, Val(o.res), curvature),
                    e0 |-> Val(o.res), solve |-> SolveLabel(o)]
              [] o.exit = "range" ->
                   [exit |-> "raise", res |-> Raise("TypeError"),
                    moment |-> 0, e0 |-> 0, solve |-> SolveLabel(o)]
              [] o.exit = "raise" /\ o.res.exc = "ZeroDivisionError" ->
                   [exit |-> "moment", res |-> NoCall, moment |-> 0,
                    e0 |-> 0, solve |-> SolveLabel(o)]
              [] o.exit = "raise" /\ o.res.exc # "ZeroDivisionError" ->
                   [exit |-> "raise", res |-> o.res, moment |-> 0,
                    e0 |-> 0, solve |-> SolveLabel(o)] :
              o \in {get_e0(sec, c, conf, curvature, e0_start.x, 0)}} : TRUE

\* lines 151-160 of get_max_moment, the update of the bounds once the moment
\* at the midpoint is known: "break", or "continue" with the new interval
max_moment_update(min_curvature, max_curvature, max_moment, e0_start, error, curvature, moment, e0) ==
    IF Abs(moment) > Abs(max_moment)
    THEN IF Abs(max_moment - moment) < error
         THEN [exit |-> "break", min_curvature |-> min_curvature,
               max_curvature |-> max_curvature, max_moment |-> moment,
               e0_start |-> e0_start]
         ELSE [exit |-> "continue", min_curvature |-> curvature,
               max_curvature |-> max_curvature, max_moment |-> moment,
               e0_start |-> E0Num(e0)]
    ELSE [exit |-> "continue", min_curvature |-> min_curvature,
          max_curvature |-> curvature, max_moment |-> max_moment,
          e0_start |-> e0_start]

\* the midpoint of line 144
max_moment_midpoint(min_curvature, max_curvature) ==
    min_curvature + Quot(max_curvature - min_curvature, 2)

(***************************************************************************)
(* The material specification: a caller constructs a material, assigns     *)
(* its parameters and evaluates it on scalars and arrays.                  *)
(***************************************************************************)
\* the inputs the caller draws from
FcValues == {-1, 0, 16, 54, 55, 70, 90, 91}
YoungValues == {0, 2}
FyValues == {2, 4}
FtValues == {8}
UltimateValues == {1, 2, 6}
Strains == (-MaxStrain)..MaxStrain
ArrayStrains == {3 * i : i \in (-MaxArrayStrain)..MaxArrayStrain}
StrainArrays == UNION {[1..n -> ArrayStrains] : n \in 1..MaxArrayLen}
StrainArgs == {Scalar(s) : s \in Strains} \cup {Array(a) : a \in StrainArrays}

\* the record of an operation
Op(name, arg, res) == [op |-> name, arg |-> arg, res |-> res]

\* binding the result of a constructor: the name is rebound only if the
\* constructor returned
Construct(name, arg, r) ==
    /\ mat' = IF r[2].kind = "raise" THEN mat ELSE r[1]
    /\ mat_out' = Op(name, arg, r[2])
    /\ UNCHANGED <<secvars, ge, cs, mc, fibvars, mm>>

NewLinear ==
    \E young \in YoungValues :
        Construct("Linear", <<young>>, <<Linear(young), Returned(0)>>)

NewConcrete ==
    \E fc \in FcValues : Construct("Concrete", <<fc>>, Concrete(fc))

NewSteelIdeal ==
    \E young \in YoungValues, fy \in FyValues, u \in UltimateValues :
        Construct("SteelIdeal", <<young, fy, u>>, SteelIdeal(young, fy, u))

NewSteelHardening ==
    \E young \in YoungValues, fy \in FyValues, ft \in FtValues,
       u \in UltimateValues :
        Construct("SteelHardening", <<young, fy, ft, u>>,
                  SteelHardening(young, fy, ft, u))

\* an assignment through a property setter: the object keeps what the setter
\* stored before it raised
Assign(name, arg, r) ==
    /\ mat' = r[1]
    /\ mat_out' = Op(name, <<arg>>, r[2])
    /\ UNCHANGED <<secvars, ge, cs, mc, fibvars, mm>>

SetFc ==
    /\ mat.type = "Concrete"
    /\ \E fc \in FcValues : Assign("fc=", fc, Concrete_set_fc(mat, fc))

SetFy ==
    /\ mat.type \in {"SteelIdeal", "SteelHardening"}
    /\ \E fy \in FyValues : Assign("fy=", fy, SteelIdeal_set_fy(mat, fy))

SetFt ==
    /\ mat.type = "SteelHardening"
    /\ \E ft \in FtValues : Assign("ft=", ft, SteelHardening_set_ft(mat, ft))

\* Concrete is evaluated in its low-strength regime (integer exponent)
Evaluable(m) ==
    /\ m.type # "none"
    /\ m.type = "Concrete" => m.n = NLow * NScale

CallGetStress ==
    /\ Evaluable(mat)
    /\ \E x \in StrainArgs : mat_out' = Op("get_stress", x, get_stress(mat, x))
    /\ UNCHANGED <<mat, secvars, ge, cs, mc, fibvars, mm>>

CallGetStiff ==
    /\ Evaluable(mat)
    /\ \E x \in StrainArgs : mat_out' = Op("get_stiff", x, get_stiff(mat, x))
    /\ UNCHANGED <<mat, secvars, ge, cs, mc, fibvars, mm>>

\* no Geometry object constructed; no geometry query made since the last
\* other call
NoFiber == [type |-> "none"]
NoQuery == Op("none", <<>>, NoCall)

\* no call of the solver is running or has ended since the section changed
IdleGe == [op |-> "idle", k |-> 0, e0 |-> 0, target_normal |-> 0,
           x |-> 0, n |-> 0, exit |-> "-", res |-> NoCall]
IdleCs == [op |-> "idle", target_normal |-> 0, target_moment |-> 0,
           n_ite |-> 0, e0 |-> 0, k |-> 0, n |-> 0, exit |-> "-",
           res |-> NoCall]
IdleMc == [op |-> "idle", k_max |-> 0, normal_force |-> 0, n_points |-> 0,
           k |-> <<>>, moment |-> <<>>, solves |-> <<>>, e0 |-> 0,
           res |-> NoCall]
IdleMm == [op |-> "idle", n_points |-> 0, is_inverted |-> FALSE, error |-> 0,
           min_curvature |-> 0, max_curvature |-> 0, max_moment |-> 0,
           e0_start |-> E0Num(0), coarse |-> 0, j |-> 0, mids |-> <<>>,
           res |-> NoCall]

\* Section(): no fibers, the centroid (0, 0) of line 13
InitSectionNone ==
    /\ section = <<>>
    /\ centroid = NumCentroid(0, 0)
    /\ area_rebar = 0
    /\ centroid_rebar = 0
    /\ cfg = DefaultConfig
    /\ sec_out = Op("Section", "None", Returned(0))
    /\ ge = IdleGe
    /\ cs = IdleCs
    /\ mc = IdleMc /\ mm = IdleMm
    /\ fiber = NoFiber
    /\ geo_out = NoQuery

InitMaterial ==
    /\ mat = NoMaterial
    /\ mat_out = Op("none", <<>>, NoCall)
    /\ InitSectionNone

NextMaterial ==
    \/ NewLinear
    \/ NewConcrete
    \/ NewSteelIdeal
    \/ NewSteelHardening
    \/ SetFc
    \/ SetFy
    \/ SetFt
    \/ CallGetStress
    \/ CallGetStiff

SpecMaterial == InitMaterial /\ [][NextMaterial]_vars

(***************************************************************************)
(* The section specification: a caller constructs a Section, adds fibers   *)
(* to it and calls its solvers.                                            *)
(***************************************************************************)
\* the largest number of fibers a section is grown to
MaxFibers == 2

\* the materials of the fibers: E = 2 stress units per strain unit; a steel
\* yielding at 2 strain units; a concrete of 16 MPa
LinearMat == Linear(2)
SteelMat == SteelIdeal(2, 4, 6)[1]
ConcreteMat == Concrete(16)[1]
BarMaterials == {LinearMat, SteelMat}
BarPositions == {<<0, 0>>}
\* the default strain_ULS of a Tendon, 10e-3, in strain units
DefaultStrainULS == 20
\* a rectangle 1 wide and 4 high in two layers
RectFiber == RectSection(1, 4, ConcreteMat, <<0, 2>>, 2)

\* the lists a Section is constructed from
InitialLists == {<<>>, <<RectFiber>>, <<Rebar(1, LinearMat, <<0, 0>>)>>}

\* Section.__init__ (lines 10-24)
Init ==
    /\ mat = NoMaterial
    /\ mat_out = Op("none", <<>>, NoCall)
    /\ \/ InitSectionNone
       \/ \E l \in InitialLists :
            /\ section = l
            \* line 18: the value _compute_centroid returns
            /\ centroid = NoneCentroid
            /\ area_rebar = set_rebar_centroid(l, 0)[1]
            /\ centroid_rebar = set_rebar_centroid(l, 0)[2]
            /\ cfg = DefaultConfig
            /\ sec_out = Op("Section", "list", Returned(0))
            /\ ge = IdleGe
            /\ cs = IdleCs
            /\ mc = IdleMc /\ mm = IdleMm
            /\ fiber = NoFiber
            /\ geo_out = NoQuery

\* the caller is between two calls
NoCallRunning ==
    ge.op # "run" /\ cs.op # "run" /\ mc.op # "run" /\ mm.op # "run"

\* the end of every add* method: self._compute_centroid()
Added(name, arg, sec) ==
    /\ NoCallRunning
    /\ Len(sec) <= MaxFibers
    /\ section' = sec
    /\ centroid' = compute_centroid(sec)
    /\ area_rebar' = set_rebar_centroid(sec, centroid_rebar)[1]
    /\ centroid_rebar' = set_rebar_centroid(sec, centroid_rebar)[2]
    /\ sec_out' = Op(name, arg, Returned(0))
    /\ ge' = IdleGe /\ cs' = IdleCs /\ mc' = IdleMc /\ mm' = IdleMm
    /\ geo_out' = NoQuery
    /\ UNCHANGED <<matvars, cfg, fiber>>

\* an add* method that raised before it appended anything
AddRaised(name, arg, exc) ==
    /\ NoCallRunning
    /\ sec_out' = Op(name, arg, Raise(exc))
    /\ ge' = IdleGe /\ cs' = IdleCs /\ mc' = IdleMc /\ mm' = IdleMm
    /\ geo_out' = NoQuery
    /\ UNCHANGED <<matvars, section, centroid, area_rebar, centroid_rebar,
                   cfg, fiber>>

\* Section.addSingleRebar
addSingleRebar ==
    \E material \in BarMaterials, position \in BarPositions :
        Added("addSingleRebar", "-",
              Append(section, Rebar(1, material, position)))

\* Section.addSingleTendon
addSingleTendon ==
    \E initial_strain \in {1} :
        Added("addSingleTendon", "-",
              Append(section, Tendon(1, SteelMat, initial_strain, <<0, 2>>,
                                     DefaultStrainULS)))

\* the integer part of a square root
Isqrt(n) == CHOOSE r \in 0..n : r * r <= n /\ (r + 1) * (r + 1) > n

\* the bars of Section.addLineRebar, for nBars > 1
LineRebars(diameter, material, position, nBars) ==
    LET x == position[2][1] - position[1][1]
        y == position[2][2] - position[1][2]
    IN [j \in 1..nBars |->
          Rebar(diameter, material,
                <<Quot(x * (j - 1), nBars - 1) + position[1][1],
                  Quot(y * (j - 1), nBars - 1) + position[1][2]>>)]

\* Section.addLineRebar: with a single bar the first position divides by
\* nBars - 1 = 0
addLineRebar ==
    \E spacing \in {2, 3} :
        LET position == <<<<0, 0>>, <<0, 2>>>>
            x == position[2][1] - position[1][1]
            y == position[2][2] - position[1][2]
            length == Isqrt(x * x + y * y)
            nBars == Quot(length, spacing) + 1
        IN IF nBars = 1
           THEN AddRaised("addLineRebar", "-", "ZeroDivisionError")
           ELSE Added("addLineRebar", "-",
                      section \o LineRebars(1, LinearMat, position, nBars))

\* Section.addRebars with a list
addRebarsList ==
    \E rebars \in {<<>>} :
        Added("addRebars", "list", section \o rebars)

\* Section.addRebars with one fiber
addRebarsSingle ==
    Added("addRebars", "single",
          Append(section, Rebar(1, SteelMat, <<0, 0>>)))

\* the arguments of the solver calls
CurvatureValues == {0, 1}
StartValues == {-12, 0}
NormalValues == {-1320, 528, 4000}
CheckNormalValues == {0, 88}
MomentValues == {0, 88, 176}
NIteValues == {0, 1, 10}
SweepCurvatureValues == {2}
SweepNormalValues == {-1320, 0, 4000}
NPointsValues == {1, 3}

\* get_e0 is called: e0 is the argument, x the local e0 of the loop
CallGetE0 ==
    /\ NoCallRunning
    /\ \E k \in CurvatureValues, e0 \in StartValues,
          target_normal \in NormalValues :
         ge' = [op |-> "run", k |-> k, e0 |-> e0,
                target_normal |-> target_normal, x |-> e0, n |-> 0,
                exit |-> "-", res |-> NoCall]
    /\ cs' = IdleCs /\ mc' = IdleMc /\ mm' = IdleMm
    /\ geo_out' = NoQuery
    /\ UNCHANGED <<matvars, secvars, fiber>>

\* one iteration of the loop of get_e0 that also stores a freshly computed
\* centroid
GetE0Iterate_Recentred ==
    /\ ge.op = "run"
    /\ ge.n < cfg.n_ite_e0
    /\ \E o \in {get_e0_step(section, centroid, cfg, ge.k, ge.x,
                             ge.target_normal)} :
         ge' = IF o.exit = "continue"
               THEN [ge EXCEPT !.x = o.e0, !.n = ge.n + 1]
               ELSE [ge EXCEPT !.op = "done", !.n = ge.n + 1,
                               !.exit = o.exit, !.res = o.res]
    /\ centroid' = compute_centroid(section)
    /\ UNCHANGED <<matvars, section, area_rebar, centroid_rebar, cfg, sec_out,
                   cs, mc, fibvars, mm>>

\* one iteration of the loop of get_e0
GetE0Iterate ==
    /\ ge.op = "run"
    /\ ge.n < cfg.n_ite_e0
    /\ \E o \in {get_e0_step(section, centroid, cfg, ge.k, ge.x,
                             ge.target_normal)} :
         ge' = IF o.exit = "continue"
               THEN [ge EXCEPT !.x = o.e0, !.n = ge.n + 1]
               ELSE [ge EXCEPT !.op = "done", !.n = ge.n + 1,
                               !.exit = o.exit, !.res = o.res]
    /\ UNCHANGED <<matvars, secvars, cs, mc, fibvars, mm>>

\* the loop of get_e0 has used up its iterations
GetE0Exhausted ==
    /\ ge.op = "run"
    /\ ge.n >= cfg.n_ite_e0
    /\ ge' = [ge EXCEPT !.op = "done", !.exit = get_e0_exhausted(ge.x).exit,
                        !.res = get_e0_exhausted(ge.x).res]
    /\ UNCHANGED <<matvars, secvars, cs, mc, fibvars, mm>>

\* check_section is called: e0 = 0, k = 0
CallCheckSection ==
    /\ NoCallRunning
    /\ \E target_normal \in CheckNormalValues,
          target_moment \in MomentValues, n_ite \in NIteValues :
         cs' = [op |-> "run", target_normal |-> target_normal,
                target_moment |-> target_moment, n_ite |-> n_ite,
                e0 |-> 0, k |-> 0, n |-> 0, exit |-> "-", res |-> NoCall]
    /\ ge' = IdleGe /\ mc' = IdleMc /\ mm' = IdleMm
    /\ geo_out' = NoQuery
    /\ UNCHANGED <<matvars, secvars, fiber>>

\* one iteration of the loop of check_section; after a break the method
\* is at its last line
CheckSectionIterate ==
    /\ cs.op = "run"
    /\ cs.n < cs.n_ite
    /\ \E o \in {check_section_step(section, centroid, cfg, cs.target_normal,
                                    cs.target_moment, cs.e0, cs.k)} :
         cs' = IF o.exit = "continue"
               THEN [cs EXCEPT !.e0 = o.e0, !.k = o.k, !.n = cs.n + 1]
               ELSE [cs EXCEPT !.op = "done", !.n = cs.n + 1,
                               !.exit = o.exit, !.res = o.res]
    /\ UNCHANGED <<matvars, secvars, ge, mc, fibvars, mm>>

\* range(n_ite) is used up: the last line, return None, None
CheckSectionExhausted ==
    /\ cs.op = "run"
    /\ cs.n >= cs.n_ite
    /\ cs' = [cs EXCEPT !.op = "done",
                        !.exit = check_section_exhausted(cs.e0, cs.k).exit,
                        !.res = check_section_exhausted(cs.e0, cs.k).res]
    /\ UNCHANGED <<matvars, secvars, ge, mc, fibvars, mm>>

\* get_moment_curvature is called: k = np.linspace(...), e0 = 0
CallGetMomentCurvature ==
    /\ NoCallRunning
    /\ \E k_max \in SweepCurvatureValues, normal_force \in SweepNormalValues,
          n_points \in NPointsValues :
         mc' = [op |-> "run", k_max |-> k_max, normal_force |-> normal_force,
                n_points |-> n_points, k |-> linspace(k_max, n_points),
                moment |-> <<>>, solves |-> <<>>, e0 |-> 0, res |-> NoCall]
    /\ ge' = IdleGe /\ cs' = IdleCs /\ mm' = IdleMm
    /\ geo_out' = NoQuery
    /\ UNCHANGED <<matvars, secvars, fiber>>

\* one sample of the sweep
MomentCurvatureSample ==
    /\ mc.op = "run"
    /\ Len(mc.solves) < mc.n_points
    /\ \E o \in {get_moment_curvature_step(section, centroid, cfg,
                                           mc.k[Len(mc.solves) + 1], mc.e0,
                                           mc.normal_force)} :
         mc' = IF o.exit = "continue"
               THEN [mc EXCEPT !.e0 = o.e0,
                               !.moment = Append(mc.moment, o.moment),
                               !.solves = Append(mc.solves, o.solve)]
               ELSE [mc EXCEPT !.op = "done", !.res = o.res,
                               !.solves = Append(mc.solves, o.solve)]
    /\ UNCHANGED <<matvars, secvars, ge, cs, fibvars, mm>>

\* return k, moment
MomentCurvatureReturn ==
    /\ mc.op = "run"
    /\ Len(mc.solves) >= mc.n_points
    /\ mc' = [mc EXCEPT !.op = "done", !.res = Returned(0)]
    /\ UNCHANGED <<matvars, secvars, ge, cs, fibvars, mm>>

\* a geometric query of the section: nothing but the result changes
SectionQueried(name, res) ==
    /\ NoCallRunning
    /\ geo_out' = Op(name, <<>>, res)
    /\ UNCHANGED <<matvars, secvars, ge, cs, mc, fiber, mm>>

\* get_section_boundary is called
CallGetSectionBoundary ==
    SectionQueried("get_section_boundary",
                   Array(get_section_boundary(section)))

\* get_section_height is called
CallGetSectionHeight ==
    SectionQueried("get_section_height",
                   Returned(get_section_height(section)))

\* the arguments of get_max_moment
MaxMomentPointsValues == {0, 1, 3}
ErrorValues == {1, 1000}

\* get_max_moment is called, on a section nothing has been asked of since
\* it was last changed: lines 116-138
CallGetMaxMoment ==
    /\ ge.op = "idle" /\ cs.op = "idle" /\ mc.op = "idle" /\ mm.op = "idle"
    /\ geo_out = NoQuery
    /\ \E is_inverted \in BOOLEAN :
         \E o \in {max_moment_start(section, centroid, cfg, is_inverted)},
            n_points \in MaxMomentPointsValues, error \in ErrorValues :
           mm' = [op |-> IF o.exit = "raise" THEN "done" ELSE "run",
                  n_points |-> n_points, is_inverted |-> is_inverted,
                  error |-> error, min_curvature |-> o.min_curvature,
                  max_curvature |-> o.max_curvature,
                  max_moment |-> o.max_moment, e0_start |-> o.e0_start,
                  coarse |-> o.max_moment, j |-> 0, mids |-> <<>>,
                  res |-> o.res]
    /\ ge' = IdleGe /\ cs' = IdleCs /\ mc' = IdleMc
    /\ geo_out' = NoQuery
    /\ UNCHANGED <<matvars, secvars, fiber>>

\* one iteration of the search loop of get_max_moment (lines 140-160); mids
\* keeps the midpoints evaluated, their moments and how their solves ended
MaxMomentIterate ==
    /\ mm.op = "run"
    /\ mm.j < mm.n_points
    /\ LET curvature == max_moment_midpoint(mm.min_curvature, mm.max_curvature)
       IN \E o \in {max_moment_solve(section, centroid, cfg, curvature,
                                     mm.e0_start)} :
            IF o.exit = "raise"
            THEN mm' = [mm EXCEPT !.op = "done", !.j = mm.j + 1,
                                  !.res = o.res]
            ELSE \E u \in {max_moment_update(mm.min_curvature,
                               mm.max_curvature, mm.max_moment, mm.e0_start,
                               mm.error, curvature, o.moment, o.e0)} :
                   mm' = [mm EXCEPT
                            !.op = IF u.exit = "break" THEN "done" ELSE "run",
                            !.min_curvature = u.min_curvature,
                            !.max_curvature = u.max_curvature,
                            !.max_moment = u.max_moment,
                            !.e0_start = u.e0_start,
                            !.j = mm.j + 1,
                            !.mids = Append(mm.mids,
                                            <<curvature, o.moment, o.solve>>),
                            !.res = IF u.exit = "break"
                                    THEN Returned(u.max_moment) ELSE NoCall]
    /\ UNCHANGED <<matvars, secvars, ge, cs, mc, fibvars>>

\* range(n_points) is used up: return max_moment
MaxMomentReturn ==
    /\ mm.op = "run"
    /\ mm.j >= mm.n_points
    /\ mm' = [mm EXCEPT !.op = "done", !.res = Returned(mm.max_moment)]
    /\ UNCHANGED <<matvars, secvars, ge, cs, mc, fibvars>>

\* the values a caller assigns to the public attribute max_increment_e0:
\* the default, and 0.015
MaxIncrementValues == {DefaultMaxIncrementE0, 30}

\* section.max_increment_e0 = value
SetMaxIncrementE0 ==
    /\ NoCallRunning
    /\ \E value \in MaxIncrementValues :
         /\ value # cfg.max_increment_e0
         /\ cfg' = [cfg EXCEPT !.max_increment_e0 = value]
    /\ sec_out' = Op("max_increment_e0=", "-", Returned(0))
    /\ ge' = IdleGe /\ cs' = IdleCs /\ mc' = IdleMc /\ mm' = IdleMm
    /\ geo_out' = NoQuery
    /\ UNCHANGED <<matvars, section, centroid, area_rebar, centroid_rebar,
                   fiber>>

\* the caller assigns the diameter of a bar that belongs to the section,
\* `sec.section[i].diameter = d`: the Rebar setter runs, and nothing of the
\* Section does (geometry.py holds no reference to the section)
ResizedDiameterValues == {2}
SetSectionFiberDiameter ==
    /\ NoCallRunning
    /\ \E i \in 1..Len(section), new_diameter \in ResizedDiameterValues :
         /\ IsRebar(section[i])
         /\ section[i].diameter # new_diameter
         /\ section' = [section EXCEPT
                          ![i] = Rebar_set_diameter(section[i],
                                                    new_diameter)[1]]
    /\ sec_out' = Op("section[i].diameter=", "-", Returned(0))
    /\ ge' = IdleGe /\ cs' = IdleCs /\ mc' = IdleMc /\ mm' = IdleMm
    /\ geo_out' = NoQuery
    /\ UNCHANGED <<matvars, centroid, area_rebar, centroid_rebar, cfg, fiber>>

Next ==
    \/ addSingleRebar
    \/ addSingleTendon
    \/ addLineRebar
    \/ addRebarsList
    \/ addRebarsSingle
    \/ CallGetE0
    \/ GetE0Iterate
    \/ GetE0Exhausted
    \/ CallCheckSection
    \/ CheckSectionIterate
    \/ CheckSectionExhausted
    \/ CallGetMomentCurvature
    \/ MomentCurvatureSample
    \/ MomentCurvatureReturn
    \/ CallGetSectionBoundary
    \/ CallGetSectionHeight
    \/ SetMaxIncrementE0
    \/ CallGetMaxMoment
    \/ MaxMomentIterate
    \/ MaxMomentReturn

Spec == Init /\ [][Next]_vars

(***************************************************************************)
(* The resizing specification: a caller adds fibers to a section, resizes  *)
(* bars that belong to it, and asks for the moment resultant.              *)
(***************************************************************************)
\* Section.get_moment_res(e0, k) is called; it reads self.centroid[1]
CallGetMomentRes ==
    /\ NoCallRunning
    /\ \E e0 \in StartValues, k \in CurvatureValues :
         geo_out' = Op("get_moment_res", <<e0, k>>,
                       IF CentroidUnreadable(section, centroid)
                       THEN Raise("TypeError")
                       ELSE Scalar(get_moment_res(section, centroid.y, e0, k)))
    /\ UNCHANGED <<matvars, secvars, ge, cs, mc, fiber, mm>>

NextResize ==
    \/ addSingleRebar
    \/ addSingleTendon
    \/ addLineRebar
    \/ addRebarsList
    \/ addRebarsSingle
    \/ SetSectionFiberDiameter
    \/ CallGetMomentRes

SpecResize == Init /\ [][NextResize]_vars

(***************************************************************************)
(* The tolerance specification: a caller adds fibers to a section and      *)
(* calls check_section, also with an axial target far from the start.      *)
(***************************************************************************)
FarNormalValues == {8800}

\* check_section is called with a far axial target
CallCheckSectionFar ==
    /\ NoCallRunning
    /\ \E target_normal \in FarNormalValues :
         cs' = [op |-> "run", target_normal |-> target_normal,
                target_moment |-> 0, n_ite |-> 10,
                e0 |-> 0, k |-> 0, n |-> 0, exit |-> "-", res |-> NoCall]
    /\ ge' = IdleGe /\ mc' = IdleMc /\ mm' = IdleMm
    /\ geo_out' = NoQuery
    /\ UNCHANGED <<matvars, secvars, fiber>>

NextTolerance ==
    \/ addSingleRebar
    \/ addSingleTendon
    \/ addLineRebar
    \/ addRebarsList
    \/ addRebarsSingle
    \/ CallCheckSection
    \/ CallCheckSectionFar
    \/ CheckSectionIterate
    \/ CheckSectionExhausted

SpecTolerance == Init /\ [][NextTolerance]_vars

(***************************************************************************)
(* The search specification: a caller adds fibers to a section, assigns    *)
(* its iteration cap n_ite_e0 and calls get_max_moment.                    *)
(***************************************************************************)
NIteE0Values == {1, DefaultNIteE0}

\* the attribute n_ite_e0 is assigned
SetNIteE0 ==
    /\ NoCallRunning
    /\ \E value \in NIteE0Values :
         /\ value # cfg.n_ite_e0
         /\ cfg' = [cfg EXCEPT !.n_ite_e0 = value]
    /\ sec_out' = Op("n_ite_e0=", "-", Returned(0))
    /\ ge' = IdleGe /\ cs' = IdleCs /\ mc' = IdleMc /\ mm' = IdleMm
    /\ geo_out' = NoQuery
    /\ UNCHANGED <<matvars, section, centroid, area_rebar, centroid_rebar,
                   fiber>>

NextSearch ==
    \/ addSingleRebar
    \/ addSingleTendon
    \/ addLineRebar
    \/ addRebarsList
    \/ addRebarsSingle
    \/ SetNIteE0
    \/ CallGetMaxMoment
    \/ MaxMomentIterate
    \/ MaxMomentReturn

SpecSearch == Init /\ [][NextSearch]_vars

(***************************************************************************)
(* The fiber specification: a caller constructs a Rebar or a Tendon,       *)
(* assigns its diameter and area, and asks for its resistances.            *)
(***************************************************************************)
\* the inputs the caller draws from; lengths in units fine enough for the
\* diameter derived from an area to be told from the one assigned
DiameterValues == {0, 30, 60}
FiberMaterials == {LinearMat, SteelMat}
FiberCenters == {<<0, 0>>, <<1, 2>>}
InitialStrainValues == {0, 1}
StrainULSValues == {2, 4}
FiberE0Values == {-3, 0, 3}
FiberCurvatureValues == {0, 1}
FiberCenterValues == {0, 3}

\* the fiber object is rebound, or assigned to, and the call recorded
FiberBound(name, arg, r) ==
    /\ fiber' = r[1]
    /\ geo_out' = Op(name, arg, r[2])
    /\ UNCHANGED <<matvars, secvars, ge, cs, mc, mm>>

NewRebar ==
    \E diameter \in DiameterValues, material \in FiberMaterials,
       center \in FiberCenters :
        FiberBound("Rebar", <<diameter>>,
                   <<Rebar(diameter, material, center), Returned(0)>>)

NewTendon ==
    \E diameter \in DiameterValues, material \in FiberMaterials,
       initial_strain \in InitialStrainValues, center \in FiberCenters,
       strain_ULS \in StrainULSValues :
        FiberBound("Tendon", <<diameter>>,
                   <<Tendon(diameter, material, initial_strain, center,
                            strain_ULS), Returned(0)>>)

SetDiameter ==
    /\ IsRebar(fiber)
    /\ \E new_diameter \in DiameterValues \cup {-30} :
         FiberBound("diameter=", <<new_diameter>>,
                    Rebar_set_diameter(fiber, new_diameter))

\* the area assigned is the one just read from the object, or another
SetArea ==
    /\ IsRebar(fiber)
    /\ \E new_area \in {fiber.area, 0, -1} :
         FiberBound("area=", <<new_area>>, Rebar_set_area(fiber, new_area))

\* a query on the fiber: the object stays as it is
FiberQueried(name, arg, res) ==
    /\ geo_out' = Op(name, arg, res)
    /\ UNCHANGED <<matvars, secvars, ge, cs, mc, fiber, mm>>

\* RectSection.get_normal_resistance_discrete evaluates the material law on
\* the array of the layer strains: what the law raises leaves the query
Rect_stress_error(f, e0, k, center) ==
    IF f.type # "Rect" THEN "-"
    ELSE LET strains == Rect_get_strains(f, Rect_get_e0_sec(f, e0, k, center), k)
             normal == get_stress(f.material, Array(strains))
         IN IF normal.kind = "raise" THEN normal.exc ELSE "-"

\* RectSection.get_stiffness: as above, and `normal.sum()` on the product of
\* a stiffness that is a Python scalar with the layer area is AttributeError
Rect_stiff_error(f, e0, k, center) ==
    IF f.type # "Rect" THEN "-"
    ELSE LET strains == Rect_get_strains(f, Rect_get_e0_sec(f, e0, k, center), k)
             normal == get_stiff(f.material, Array(strains))
         IN CASE normal.kind = "raise" -> normal.exc
              [] normal.kind = "scalar" -> "AttributeError"
              [] OTHER -> "-"

FiberGetNormalResistance ==
    /\ fiber # NoFiber
    /\ \E e0 \in FiberE0Values, k \in FiberCurvatureValues,
          center \in FiberCenterValues :
         FiberQueried("get_normal_resistance", <<e0, k, center>>,
                      IF Rect_stress_error(fiber, e0, k, center) # "-"
                      THEN Raise(Rect_stress_error(fiber, e0, k, center))
                      ELSE Scalar(get_normal_resistance(fiber, e0, k,
                                                        center)))

FiberGetMomentResistance ==
    /\ fiber # NoFiber
    /\ \E e0 \in FiberE0Values, k \in FiberCurvatureValues,
          center \in FiberCenterValues :
         FiberQueried("get_moment_resistance", <<e0, k, center>>,
                      IF Rect_stress_error(fiber, e0, k, center) # "-"
                      THEN Raise(Rect_stress_error(fiber, e0, k, center))
                      ELSE Scalar(get_moment_resistance(fiber, e0, k,
                                                        center)))

FiberGetStiffness ==
    /\ fiber # NoFiber
    /\ \E e0 \in FiberE0Values, k \in FiberCurvatureValues,
          center \in FiberCenterValues :
         FiberQueried("get_stiffness", <<e0, k, center>>,
                      IF Rect_stiff_error(fiber, e0, k, center) # "-"
                      THEN Raise(Rect_stiff_error(fiber, e0, k, center))
                      ELSE Array(get_stiffness(fiber, e0, k, center)))

\* the caller's RectSection: sizes whose layers fall on the length grid
WidthValues == {1, 2}
HeightValues == {8, 16}
NDiscretValues == {1, 2, 4}
RectMaterials == {ConcreteMat, LinearMat, SteelMat}

NewRect ==
    \E width \in WidthValues, height \in HeightValues,
       material \in RectMaterials, center \in FiberCenters,
       n_discret \in NDiscretValues :
        FiberBound("RectSection", <<width, height, n_discret>>,
                   <<RectSection(width, height, material, center, n_discret),
                     Returned(0)>>)

SetWidth ==
    /\ fiber # NoFiber /\ fiber.type = "Rect"
    /\ \E new_width \in WidthValues :
         FiberBound("width=", <<new_width>>,
                    <<Rect_set_width(fiber, new_width), Returned(0)>>)

SetHeight ==
    /\ fiber # NoFiber /\ fiber.type = "Rect"
    /\ \E new_height \in HeightValues :
         FiberBound("height=", <<new_height>>,
                    <<Rect_set_height(fiber, new_height), Returned(0)>>)

NextFiber ==
    \/ NewRebar
    \/ NewTendon
    \/ SetDiameter
    \/ SetArea
    \/ FiberGetNormalResistance
    \/ FiberGetMomentResistance
    \/ FiberGetStiffness
    \/ NewRect
    \/ SetWidth
    \/ SetHeight

SpecFiber == InitMaterial /\ [][NextFiber]_vars

(***************************************************************************)
(* The rounding specification: the stiffness matrix of a section of two    *)
(* bars as binary floating point computes it.  A float is m * 2^e with a   *)
(* mantissa of MantissaBits bits, every operation rounded to nearest, ties *)
(* to even, as IEEE 754 does with 53 bits.                                 *)
(***************************************************************************)
MantissaBits == 6

RECURSIVE TwoTo(_)
TwoTo(n) == IF n <= 0 THEN 1 ELSE 2 * TwoTo(n - 1)

\* the number of low bits of the magnitude a that do not fit the mantissa
RECURSIVE DropBits(_, _)
DropBits(a, s) ==
    IF a < TwoTo(MantissaBits + s) THEN s ELSE DropBits(a, s + 1)

\* the float nearest to M * 2^E
Fl(M, E) ==
    LET a == Abs(M)
        s == DropBits(a, 0)
        q == a \div TwoTo(s)
        r == a % TwoTo(s)
        up == 2 * r > TwoTo(s) \/ (2 * r = TwoTo(s) /\ q % 2 = 1)
    IN IF M = 0 THEN [m |-> 0, e |-> 0]
       ELSE [m |-> Sign(M) * (IF up THEN q + 1 ELSE q), e |-> E + s]

\* x * y and x + y of two floats
fl_mul(x, y) == Fl(x.m * y.m, x.e + y.e)

fl_add(x, y) ==
    IF x.m = 0 THEN y
    ELSE IF y.m = 0 THEN x
    ELSE LET e == Min(x.e, y.e)
         IN Fl(x.m * TwoTo(x.e - e) + y.m * TwoTo(y.e - e), e)

\* a Rebar.get_stiffness whose a11 is normal * dist
float_Rebar_get_stiffness_Unsquared(normal, dist) ==
    <<normal, fl_mul(normal, dist), fl_mul(normal, dist)>>

\* Rebar.get_stiffness from normal = area * stiffness and dist on: a00, a01, a11
float_Rebar_get_stiffness(normal, dist) ==
    <<normal, fl_mul(normal, dist), fl_mul(normal, fl_mul(dist, dist))>>

\* Section.get_stiff of two bars: K.sum(axis=0)
float_get_stiff(K1, K2) ==
    <<fl_add(K1[1], K2[1]), fl_add(K1[2], K2[2]), fl_add(K1[3], K2[3])>>

\* the caller's bars: area * stiffness of full mantissa, or of a yielded bar
\* (stiffness 0); distances from the centroid below 1 length unit
FullMantissas == TwoTo(MantissaBits - 1)..(TwoTo(MantissaBits) - 1)
FirstNormals == {[m |-> n, e |-> 0] : n \in FullMantissas}
FirstDists == {[m |-> d, e |-> -MantissaBits] : d \in FullMantissas}
SecondNormals == {[m |-> 0, e |-> 0], [m |-> TwoTo(MantissaBits - 1) + 1, e |-> 0]}
SecondDists ==
    {[m |-> -TwoTo(MantissaBits - 1), e |-> -MantissaBits],
     [m |-> 1 - TwoTo(MantissaBits), e |-> -MantissaBits]}

\* the one call of Section.get_stiff(e0, k), on two bars whose stiffness at
\* their strains and whose distances are the ones drawn
CallFloatGetStiff ==
    /\ geo_out = NoQuery
    /\ \E n1 \in FirstNormals, d1 \in FirstDists, n2 \in SecondNormals,
          d2 \in SecondDists :
         geo_out' = Op("get_stiff", <<n1, d1, n2, d2>>,
                       Array(float_get_stiff(
                                 float_Rebar_get_stiffness(n1, d1),
                                 float_Rebar_get_stiffness(n2, d2))))
    /\ UNCHANGED <<matvars, secvars, ge, cs, mc, fiber, mm>>

NextFloat == CallFloatGetStiff

SpecFloat == InitMaterial /\ [][NextFloat]_vars

(***************************************************************************)
(* Properties of the materials                                             *)
(***************************************************************************)
\* the constants of EN 1992 / NBR 6118 for a strength of fc MPa, 55 <= fc <= 90:
\* ec2, ecu in micro-strain (negative), n in thousandths
HighStrengthConstants(fc) ==
    <<-(2000 + (85 * Pow053Milli(fc - 50)) \div 1000),
      -(2600 + (35 * (90 - fc) * (90 - fc) * (90 - fc) * (90 - fc)) \div 100000),
      1400 + (234 * (90 - fc) * (90 - fc) * (90 - fc) * (90 - fc)) \div 1000000>>

C10_ArrayElementwise ==
    (mat_out.op \in {"get_stress", "get_stiff"} /\ mat_out.arg.kind = "array") =>
        /\ mat_out.res.kind = "array"
        /\ Len(mat_out.res.v) = Len(mat_out.arg.v)
        /\ \A i \in 1..Len(mat_out.arg.v) :
              LET one == IF mat_out.op = "get_stress"
                         THEN get_stress(mat, Scalar(mat_out.arg.v[i]))
                         ELSE get_stiff(mat, Scalar(mat_out.arg.v[i]))
              IN /\ one.kind = "scalar"
                 /\ mat_out.res.v[i] = Val(one)

\* C10, where the code does what the claim says: Concrete (np.select) on an
\* array of two strains
C10_ConcreteArrayReached ==
    /\ mat_out.op = "get_stiff"
    /\ mat_out.arg.kind = "array"
    /\ Len(mat_out.arg.v) = 2
    /\ mat.type = "Concrete"
    /\ mat_out.res.kind = "array"

(***************************************************************************)
(* Properties of the section solvers                                       *)
(***************************************************************************)
\* C1: a get_e0 call that uses up all n_ite_e0 iterations without the
\* residual dropping below residual_e0 ends by raising ConvergenceError; it
\* returns neither None nor an unconverged e0.
C1_ExhaustionRaises ==
    (ge.op = "done" /\ ge.exit = "range")
        => ge.res = Raise("ConvergenceError")

\* C2: a check_section call that reaches an iterate whose residual is not
\* below the tolerance and whose determinant is below the floor raises
\* SectionUnstableError; it returns neither (None, None) nor a pair.
C2_SingularRaises ==
    (cs.op = "done" /\ cs.exit = "break")
        => cs.res = Raise("SectionUnstableError")

\* C3: whenever get_e0 returns e0*, |target_normal - get_normal_res(e0*, k)|
\* is below residual_e0, whatever the signs of the target and the resultant.
C3_ReturnedWithinResidual ==
    (ge.op = "done" /\ ge.res.kind = "return")
        => Abs(ge.target_normal
                 - get_normal_res(section, centroid.y, Val(ge.res), ge.k))
             < cfg.residual_e0

\* C4: whenever check_section returns a pair (e0, k), the Euclidean norm of
\* [target_normal - N(e0, k), target_moment - M(e0, k)] is below
\* tolerance_check_section.
C4_PairWithinTolerance ==
    (cs.op = "done" /\ cs.res.kind = "pair")
        => LET e0 == cs.res.v[1]
               k == cs.res.v[2]
               r0 == cs.target_normal
                       - get_normal_res(section, centroid.y, e0, k)
               r1 == cs.target_moment
                       - get_moment_res(section, centroid.y, e0, k)
           IN r0 * r0 + r1 * r1
                < cfg.tolerance_check_section * cfg.tolerance_check_section

\* a pair returned after at least one Newton update, away from the start
C4_ConvergedAfterUpdate ==
    /\ cs.op = "done"
    /\ cs.res.kind = "pair"
    /\ cs.n > 1
    /\ cs.res.v # <<0, 0>>
    /\ Len(section) = 2

\* C5: get_moment_curvature completes with n_points samples: a sample whose
\* get_e0 solve failed, by vanishing stiffness or by exhausting its
\* iterations, has the moment 0, and the sweep goes on after it.
C5_FailedSolveGivesSentinel ==
    /\ \A i \in 1..Len(mc.solves) :
         mc.solves[i] \in {"ZeroDivisionError", "range"}
            => (i <= Len(mc.moment) /\ mc.moment[i] = 0)
    /\ (/\ mc.op = "done"
        /\ \A i \in 1..Len(mc.solves) :
             mc.solves[i] \in {"return", "ZeroDivisionError", "range"})
         => (mc.res.kind = "return" /\ Len(mc.moment) = mc.n_points)

\* C6: the result of check_section tells its three ends apart: a converged
\* call, a call that met a singular stiffness matrix and a call that used up
\* n_ite give three different results.
C6_OutcomesDistinguishable ==
    cs.op = "done" =>
        /\ cs.exit = "return" => cs.res.kind = "pair"
        /\ cs.exit = "range" => cs.res.kind # "pair"
        /\ cs.exit = "break" =>
             /\ cs.res.kind # "pair"
             /\ cs.res # check_section_exhausted(cs.e0, cs.k).res

(***************************************************************************)
(* Properties of the centroid                                              *)
(***************************************************************************)
\* the constructor was given a list, or an add* method has returned
CentroidComputed ==
    /\ sec_out.res.kind = "return"
    /\ \/ sec_out.op = "Section" /\ sec_out.arg = "list"
       \/ sec_out.op \in {"addSingleRebar", "addSingleTendon",
                          "addLineRebar", "addRebars"}

\* the sum of area times stiffness at zero strain over the fibers
WeightSum(sec) ==
    SeqSum([i \in 1..Len(sec) |->
              Fiber_area(sec[i])
                * Val(get_stiff(sec[i].material, Scalar(0)))])

\* C7: after a Section is constructed from a non-empty list, and after every
\* add* call, centroid is the average of the centers of the fibers now in
\* the section, weighted by area times stiffness at zero strain.
C7_CentroidIsWeightedAverage ==
    (CentroidComputed /\ section # <<>> /\ WeightSum(section) # 0)
        => LET w == [i \in 1..Len(section) |->
                       Fiber_area(section[i])
                         * Val(get_stiff(section[i].material, Scalar(0)))]
               cx == Quot(SeqSum([i \in 1..Len(section) |->
                                    w[i] * section[i].center[1]]),
                          SeqSum(w))
               cy == Quot(SeqSum([i \in 1..Len(section) |->
                                    w[i] * section[i].center[2]]),
                          SeqSum(w))
           IN centroid = NumCentroid(cx, cy)

\* C8: computing the centroid of a section without fibers, or whose weights
\* sum to zero, fails with an error reported to the caller.
C8_DegenerateCentroidFails ==
    ~ (CentroidComputed /\ WeightSum(section) = 0)

(***************************************************************************)
(* Properties of the steel laws                                            *)
(***************************************************************************)
\* C11: SteelHardening is symmetric: get_stress(-x) = -get_stress(x) and
\* get_stiff(-x) = get_stiff(x) for every strain x; for
\* yield_strain < |x| < ultimate_strain the stress magnitude is
\* fy + (|x| - yield_strain) * hardening_stiffness and the stiffness is
\* hardening_stiffness; both are zero for |x| > ultimate_strain.
C11_HardeningSymmetric ==
    (/\ mat.type = "SteelHardening"
     /\ mat_out.op \in {"get_stress", "get_stiff"}
     /\ mat_out.arg.kind = "scalar")
        => LET x == Val(mat_out.arg)
               ax == IF x < 0 THEN -x ELSE x
               mirror == IF mat_out.op = "get_stress"
                         THEN get_stress(mat, Scalar(-x))
                         ELSE get_stiff(mat, Scalar(-x))
               hardening == mat.yield_strain < ax /\ ax < mat.ultimate_strain
           IN /\ mat_out.res.kind = "scalar"
              /\ mirror.kind = "scalar"
              /\ mat_out.op = "get_stress" =>
                   /\ Val(mat_out.res) = -Val(mirror)
                   /\ hardening =>
                        Val(mat_out.res) * (IF x < 0 THEN -1 ELSE 1)
                          = mat.fy + (ax - mat.yield_strain)
                                       * mat.hardening_stiffness
              /\ mat_out.op = "get_stiff" =>
                   /\ Val(mat_out.res) = Val(mirror)
                   /\ hardening => Val(mat_out.res) = mat.hardening_stiffness
              /\ ax > mat.ultimate_strain => Val(mat_out.res) = 0

\* C11, where the code does what the claim says: a tensile strain on the
\* hardening branch
C11_TensileHardeningReached ==
    /\ mat.type = "SteelHardening"
    /\ mat_out.op = "get_stress"
    /\ mat_out.arg.kind = "scalar"
    /\ mat.yield_strain < Val(mat_out.arg)
    /\ Val(mat_out.arg) < mat.ultimate_strain
    /\ Val(mat_out.res) > mat.fy

\* the law C12 states for SteelIdeal, case by case as the claim lists them
SteelIdealLawHolds ==
    LET x == Val(mat_out.arg)
        ax == IF x < 0 THEN -x ELSE x
        sgn == IF x < 0 THEN -1 ELSE IF x > 0 THEN 1 ELSE 0
    IN /\ mat_out.res.kind = "scalar"
       /\ mat_out.op = "get_stress" =>
            /\ ax <= mat.yield_strain => Val(mat_out.res) = mat.young * x
            /\ (mat.yield_strain < ax /\ ax <= mat.ultimate_strain)
                 => Val(mat_out.res) = mat.fy * sgn
            /\ ax > mat.ultimate_strain => Val(mat_out.res) = 0
            /\ x = 0 => Val(mat_out.res) = 0
            /\ get_stress(mat, Scalar(-x)) = Scalar(-Val(mat_out.res))
       /\ mat_out.op = "get_stiff" =>
            /\ ax <= mat.yield_strain => Val(mat_out.res) = mat.young
            /\ ax > mat.yield_strain => Val(mat_out.res) = 0

\* a SteelIdeal with young > 0 and fy >= 0 was evaluated on a scalar strain
SteelIdealEvaluated ==
    /\ mat.type = "SteelIdeal"
    /\ mat.young > 0
    /\ mat.fy >= 0
    /\ mat_out.op \in {"get_stress", "get_stiff"}
    /\ mat_out.arg.kind = "scalar"

\* C12 as stated: for SteelIdeal with young > 0 and fy >= 0 and every strain
\* x, get_stress(x) is young*x for |x| <= yield_strain, fy*sign(x) for
\* yield_strain < |x| <= ultimate_strain and 0 for |x| > ultimate_strain;
\* get_stiff(x) is young for |x| <= yield_strain and 0 otherwise;
\* get_stress(0) = 0 and get_stress(-x) = -get_stress(x).
C12_SteelIdealLaw_AsStated ==
    SteelIdealEvaluated => SteelIdealLawHolds

\* C12 amended: the same law for a SteelIdeal whose ultimate strain is not
\* below its yield strain (otherwise the elastic case and the zero case of
\* the claim overlap, and the code takes the elastic one).
C12_SteelIdealLaw ==
    (SteelIdealEvaluated /\ mat.yield_strain <= mat.ultimate_strain)
        => SteelIdealLawHolds

\* C12 witness: a compressive strain on the plateau gave -fy
C12_CompressivePlateauReached ==
    /\ SteelIdealEvaluated
    /\ mat_out.op = "get_stress"
    /\ Val(mat_out.arg) < -mat.yield_strain
    /\ -mat.ultimate_strain <= Val(mat_out.arg)
    /\ mat_out.res = Scalar(-mat.fy)
    /\ mat.fy > 0

(***************************************************************************)
(* Properties of the concrete law                                          *)
(***************************************************************************)
\* a Concrete with the exponent n = 2 was evaluated on a scalar strain
ConcreteEvaluated ==
    /\ mat.type = "Concrete"
    /\ mat.n = 2000
    /\ mat_out.op \in {"get_stress", "get_stiff"}
    /\ mat_out.arg.kind = "scalar"

\* C13: for Concrete and every strain x, get_stress(x) is
\* -fc*(1 - (1 - x/ec2)^n) for ec2 <= x <= 0, -fc for ecu <= x <= ec2 and 0
\* for x > 0 and for x < ecu; get_stiff(x) is -fc*n*(1 - x/ec2)^(n-1)/ec2 for
\* ec2 <= x <= 0 and 0 for x > 0 and for x < ec2.  Checked for n = 2, the
\* values within one grid unit of the exact quotient (x in micro-strain, the
\* stiffness per strain unit of 500 micro-strain).
C13_ConcreteLaw ==
    ConcreteEvaluated
        => LET x == Val(mat_out.arg) * 500
               v == Val(mat_out.res)
               e2 == mat.ec2 * mat.ec2
               d == IF v * e2 + mat.fc * (e2 - (mat.ec2 - x) * (mat.ec2 - x)) < 0
                    THEN -(v * e2 + mat.fc * (e2 - (mat.ec2 - x) * (mat.ec2 - x)))
                    ELSE v * e2 + mat.fc * (e2 - (mat.ec2 - x) * (mat.ec2 - x))
               dk == IF v * e2 + mat.fc * 2 * (mat.ec2 - x) * 500 < 0
                     THEN -(v * e2 + mat.fc * 2 * (mat.ec2 - x) * 500)
                     ELSE v * e2 + mat.fc * 2 * (mat.ec2 - x) * 500
           IN /\ mat_out.res.kind = "scalar"
              /\ mat_out.op = "get_stress" =>
                   /\ (mat.ec2 <= x /\ x <= 0) => d < e2
                   /\ (mat.ecu <= x /\ x <= mat.ec2) => v = -mat.fc
                   /\ x > 0 => v = 0
                   /\ x < mat.ecu => v = 0
              /\ mat_out.op = "get_stiff" =>
                   /\ (mat.ec2 <= x /\ x <= 0) => dk < e2
                   /\ x > 0 => v = 0
                   /\ x < mat.ec2 => v = 0

\* C13 witness: a strain strictly inside the plateau gave -fc, fc > 0
C13_PlateauReached ==
    /\ ConcreteEvaluated
    /\ mat_out.op = "get_stress"
    /\ mat.ecu < Val(mat_out.arg) * 500
    /\ Val(mat_out.arg) * 500 < mat.ec2
    /\ mat.fc > 0
    /\ mat_out.res = Scalar(-mat.fc)

(***************************************************************************)
(* Properties of the fibers                                                *)
(***************************************************************************)
\* C14: for a Tendon at every (e0, k, center), with the local strain
\* s = e0 + k * (center - center height of the tendon): if s > strain_ULS the
\* normal resistance, the moment resistance and the stiffness entries are
\* zero whatever the material; otherwise they are the Rebar formulas with
\* the material evaluated at s + initial_strain.
C14_TendonRuptureAndOffset ==
    (/\ fiber.type = "Tendon"
     /\ geo_out.op \in {"get_normal_resistance", "get_moment_resistance",
                        "get_stiffness"})
        => LET e0 == geo_out.arg[1]
               k == geo_out.arg[2]
               dist == geo_out.arg[3] - fiber.center[2]
               s == e0 + k * dist
               ruptured == s > fiber.strain_ULS
               n == fiber.area
                      * Val(get_stress(fiber.material,
                                       Scalar(s + fiber.initial_strain)))
               kn == fiber.area
                       * Val(get_stiff(fiber.material,
                                       Scalar(s + fiber.initial_strain)))
           IN /\ geo_out.op = "get_normal_resistance" =>
                   geo_out.res = Scalar(IF ruptured THEN 0 ELSE n)
              /\ geo_out.op = "get_moment_resistance" =>
                   geo_out.res = Scalar(IF ruptured THEN 0 ELSE n * dist)
              /\ geo_out.op = "get_stiffness" =>
                   geo_out.res = Array(IF ruptured THEN <<0, 0, 0>>
                                       ELSE <<kn, kn * dist, kn * dist * dist>>)

\* C14 witness: a ruptured tendon of a linear material, whose law alone
\* would give a force, has the normal resistance 0
C14_RupturedReached ==
    /\ fiber.type = "Tendon"
    /\ fiber.material.type = "Linear"
    /\ fiber.area > 0
    /\ geo_out.op = "get_normal_resistance"
    /\ geo_out.arg[1] + geo_out.arg[2] * (geo_out.arg[3] - fiber.center[2])
         > fiber.strain_ULS
    /\ geo_out.res = Scalar(0)

\* C15: the diameter and the area of a Rebar stay consistent: the area read
\* after assigning diameter = d equals the area read after construction with
\* the diameter d, and assigning the area that the diameter d derives gives
\* back the diameter d.
C15_DiameterAreaConsistent ==
    /\ (geo_out.op = "diameter=" /\ geo_out.res.kind = "return")
         => fiber.area
              = Rebar(geo_out.arg[1], fiber.material, fiber.center).area
    /\ (geo_out.op = "area=" /\ geo_out.res.kind = "return")
         => \A d \in DiameterValues :
               geo_out.arg[1] = Rebar_set_diameter(fiber, d)[1].area
                  => fiber.diameter = d

\* C15, where the code does what the claim says: the area read after
\* construction, assigned back, leaves the diameter as constructed
C15_ConstructedAreaAssignedBack ==
    /\ geo_out.op = "area="
    /\ geo_out.res.kind = "return"
    /\ geo_out.arg[1] > 0
    /\ fiber = Rebar(fiber.diameter, fiber.material, fiber.center)

\* the x (c = 1) or y (c = 2) coordinates of the boundary points of all the
\* fibers of a section
BoundaryCoords(sec, c) ==
    {boundary_points(sec)[i][c] : i \in 1..Len(boundary_points(sec))}

SetMin(S) == CHOOSE m \in S : \A x \in S : m <= x
SetMax(S) == CHOOSE m \in S : \A x \in S : m >= x

\* the bounding box of the boundary points of a non-empty section
BoundingBox(sec) ==
    <<<<SetMin(BoundaryCoords(sec, 1)), SetMin(BoundaryCoords(sec, 2))>>,
      <<SetMax(BoundaryCoords(sec, 1)), SetMax(BoundaryCoords(sec, 2))>>>>

\* C16: for every non-empty section, wherever it lies in the plane,
\* get_section_boundary returns the minimum and the maximum x and y over the
\* boundary points of all its fibers, and get_section_height returns y1 - y0
\* of that box.
C16_BoundaryIsBoundingBox ==
    section # <<>> =>
        /\ geo_out.op = "get_section_boundary"
             => geo_out.res.v = BoundingBox(section)
        /\ geo_out.op = "get_section_height"
             => Val(geo_out.res)
                  = BoundingBox(section)[2][2] - BoundingBox(section)[1][2]

\* C16, where the code does what the claim says: a section whose bounding
\* box contains the origin was queried
C16_BoxWithOriginQueried ==
    /\ section # <<>>
    /\ geo_out.op = "get_section_boundary"
    /\ BoundingBox(section)[2][2] > 0
    /\ geo_out.res.v = BoundingBox(section)

\* the state (0, 0) check_section starts from meets the targets within
\* tolerance_check_section
StartMeetsTargets ==
    /\ ~CentroidUnreadable(section, centroid)
    /\ check_section_converged(
           cs.target_normal - get_normal_res(section, centroid.y, 0, 0),
           cs.target_moment - get_moment_res(section, centroid.y, 0, 0),
           cfg.tolerance_check_section)

\* the start state came back from the first residual test: one pass through
\* the loop, no update, none of the outcomes of the stiffness path
StartReturnedAtFirstTest ==
    /\ cs.exit = "return"
    /\ cs.res = ReturnedPair(0, 0)
    /\ cs.n = 1
    /\ cs.e0 = 0 /\ cs.k = 0

SolverIterationsBounded ==
    /\ ge.n <= cfg.n_ite_e0
    /\ cs.n <= cs.n_ite

\* get_e0 ended converged, on the stiffness floor, or with its range used up
GetE0EndClassified ==
    \/ ge.exit = "return"
    \/ ge.exit = "raise" /\ ge.res.exc = "ZeroDivisionError"
    \/ ge.exit = "range" /\ ge.n = cfg.n_ite_e0

\* check_section ended converged, on a singular matrix, or with its range
\* used up
CheckSectionEndClassified ==
    \/ cs.exit = "return"
    \/ cs.exit = "break"
    \/ cs.exit = "range" /\ cs.n = cs.n_ite

\* C18: get_e0 ends after at most n_ite_e0 iterations and check_section after
\* at most n_ite iterations, each in exactly one of the outcomes converged,
\* failed on vanishing or singular stiffness, iteration cap exhausted.
C18_SolversEndClassified ==
    /\ SolverIterationsBounded
    /\ ge.op = "done" => GetE0EndClassified
    /\ cs.op = "done" => CheckSectionEndClassified

\* C18, where the code does what the claim says: get_e0 used up its range
\* after exactly n_ite_e0 iterations
C18_CapExhaustedReached ==
    /\ ge.op = "done"
    /\ ge.exit = "range"
    /\ ge.n = cfg.n_ite_e0

\* C18 on sections with fibers and a centroid that can be read: the ends
\* the claim lists are the only ones
C18_ClassifiedOnReadableSections ==
    (section # <<>> /\ centroid.tag # "None")
        => /\ ge.op = "done" => GetE0EndClassified
           /\ cs.op = "done" => CheckSectionEndClassified

\* get_e0 is about to run an iteration on a section with fibers and a
\* readable centroid
GetE0AtIterate ==
    /\ ge.op = "run"
    /\ ge.n < cfg.n_ite_e0
    /\ section # <<>>
    /\ ~CentroidUnreadable(section, centroid)

\* the iterate of get_e0 is not converged
IterateNotConverged ==
    get_e0_residual(ge.target_normal,
                    get_normal_res(section, centroid.y, ge.x, ge.k))
        >= cfg.residual_e0

\* the axial tangent stiffness a00 at the iterate of get_e0
IterateStiff == get_section_stiff(section, centroid.y, ge.x, ge.k)[1]

\* C19: when get_e0 is at a non-converged iterate whose axial stiffness a00
\* is below the floor, the iteration ends the call with ZeroDivisionError:
\* e0 is not updated and no value is returned.
C19_FloorFails ==
    [][(GetE0AtIterate /\ IterateNotConverged /\ IterateStiff < StiffFloor)
          => /\ ge'.op = "done"
             /\ ge'.exit = "raise"
             /\ ge'.res = Raise("ZeroDivisionError")
             /\ ge'.x = ge.x
             /\ ge'.n = ge.n + 1]_vars

\* C19: get_e0 failed on the floor after at least one update of e0
C19_FloorFailureReached ==
    /\ ge.op = "done"
    /\ ge.res = Raise("ZeroDivisionError")
    /\ ge.n > 1
    /\ ge.x # ge.e0
    /\ IterateNotConverged
    /\ IterateStiff < StiffFloor

\* the raw step of get_e0 at its iterate: (target_normal - N(e0, k)) / a00
RawStep ==
    Quot(ge.target_normal - get_normal_res(section, centroid.y, ge.x, ge.k),
         IterateStiff)

\* the iteration of get_e0 that has just been taken updated e0
GetE0Updated == ge.op = "run" /\ ge'.op = "run" /\ ge'.n = ge.n + 1

\* the step: every iteration of get_e0 that updates e0 changes it by
\* sign(raw) * min(|raw|, max_increment_e0), raw = (target_normal - N) / a00,
\* so by at most max_increment_e0 and in the direction of the raw step.
C20_StepClamped ==
    [][GetE0Updated
          => /\ ge'.x - ge.x
                  = Sign(RawStep) * Min(Abs(RawStep), cfg.max_increment_e0)
             /\ Abs(ge'.x - ge.x) <= cfg.max_increment_e0
             /\ Sign(ge'.x - ge.x) = Sign(RawStep)]_vars

\* the drift: after i iterations of get_e0 the iterate is within
\* i * max_increment_e0 of the start value.
C20_DriftBounded ==
    ge.op # "idle" => Abs(ge.x - ge.e0) <= ge.n * cfg.max_increment_e0

\* C20: get_e0 has taken a step shorter than the cap and a step of the
\* length of the cap in one call
C20_BothStepsTaken ==
    /\ ge.op = "run"
    /\ ge.n >= 2
    /\ Abs(ge.x - ge.e0) > cfg.max_increment_e0
    /\ Abs(ge.x - ge.e0) < ge.n * cfg.max_increment_e0

\* C20: every get_e0 iteration that updates e0 changes it by
\* sign(raw) * min(|raw|, max_increment_e0) with raw = (target_normal - N) /
\* a00, and after i iterations |e0 - e0_start| <= i * max_increment_e0.
C20_ClampedUpdates == C20_StepClamped /\ []C20_DriftBounded

\* the derived constants of a Concrete are those of its current fc
ConcreteConstantsCurrent(m) ==
    /\ Concrete_get_constants(m.fc).ok
    /\ m.ec2 = Concrete_get_constants(m.fc).ec2
    /\ m.ecu = Concrete_get_constants(m.fc).ecu
    /\ m.n = Concrete_get_constants(m.fc).n

\* yield_strain = fy / young
YieldStrainCurrent(m) ==
    m.young # 0 /\ m.yield_strain = Quot(m.fy, m.young)

\* hardening_stiffness = (ft - fy) / (ultimate_strain - yield_strain)
HardeningStiffnessCurrent(m) ==
    /\ m.ultimate_strain # m.yield_strain
    /\ m.hardening_stiffness
         = Quot(m.ft - m.fy, m.ultimate_strain - m.yield_strain)

\* C21: after any sequence of parameter assignments on a material, failed
\* ones included, the derived constants agree with the current defining
\* parameters: the Concrete constants with fc, yield_strain with fy / young,
\* hardening_stiffness with (ft - fy) / (ultimate_strain - yield_strain).
C21_DerivedConstantsCurrent ==
    /\ mat.type = "Concrete" => ConcreteConstantsCurrent(mat)
    /\ mat.type \in {"SteelIdeal", "SteelHardening"} => YieldStrainCurrent(mat)
    /\ mat.type = "SteelHardening" => HardeningStiffnessCurrent(mat)

\* C21, where the code does what the claim says: an assignment of fc that
\* returned moved the constants to the high-strength regime
C21_ConstantsFollowedFc ==
    /\ mat.type = "Concrete"
    /\ mat_out.op = "fc="
    /\ mat_out.res.kind = "return"
    /\ mat.n # NLow * NScale
    /\ ConcreteConstantsCurrent(mat)

\* C21 for the Concrete alone
ConcreteStaysCurrent == mat.type = "Concrete" => ConcreteConstantsCurrent(mat)

\* C21 for the hardening stiffness alone
HardeningStaysCurrent ==
    mat.type = "SteelHardening" => HardeningStiffnessCurrent(mat)

\* C21 for the yield strain alone
YieldStaysCurrent ==
    mat.type \in {"SteelIdeal", "SteelHardening"} => YieldStrainCurrent(mat)

\* a step of one of the four solver calls: the call starts, iterates or ends
SolverStep ==
    /\ ge' # ge \/ cs' # cs \/ mc' # mc \/ mm' # mm
    /\ ge'.op # "idle" \/ cs'.op # "idle" \/ mc'.op # "idle" \/ mm'.op # "idle"

\* a second get_e0 call with the arguments of the finished one, on the
\* section as it is now, ends as the finished one did
GetE0Repeatable ==
    ge.op = "done"
        => get_e0(section, centroid, cfg, ge.k, ge.e0, ge.target_normal).res
             = ge.res

\* C22: a call to get_e0, check_section, get_moment_curvature or
\* get_max_moment, whatever its outcome, leaves the fibers and their order,
\* each fiber's geometry, material and discretization, the centroid, the
\* rebar centroid and the solver configuration as they were, so an identical
\* call gives an identical result.
C22_SolversLeaveSection ==
    /\ [][SolverStep => UNCHANGED <<section, centroid, area_rebar,
                                    centroid_rebar, cfg>>]_vars
    /\ []GetE0Repeatable

\* C22: a call that ended with an exception on a section with fibers
C22_RaisedOnFibers ==
    /\ section # <<>>
    /\ mm.op = "done"
    /\ mm.res.kind = "raise"

(***************************************************************************)
(* Properties of the fibers' resultants and of the RectSection layers      *)
(***************************************************************************)
\* the layers of a fiber as the pairs <<d_i, area_i>>: layer i of a
\* RectSection of N layers has its mid-height at y_i = bottom + h*(2i-1)/(2N)
\* and d_i = center - y_i, each of area A/N; a Rebar is one layer of its full
\* area at its own height
LayersOf(f, center) ==
    IF f.type = "Rect"
    THEN LET N == f.n_discret
             bottom2N == 2 * N * f.center[2] - N * f.height
         IN [i \in 1..N |->
                <<(2 * N * center - bottom2N - f.height * (2 * i - 1))
                      \div (2 * N),
                  (AreaScale * f.width * f.height) \div N>>]
    ELSE <<<<center - f.center[2], f.area>>>>

\* the sum over the layers of law(e0 + k*d_i) * area_i * d_i^p
LayerSum(f, e0, k, center, law(_, _), p) ==
    LET layers == LayersOf(f, center)
    IN SeqSum([i \in 1..Len(layers) |->
                 LET d == layers[i][1]
                     each == Val(law(f.material, Scalar(e0 + k * d)))
                 IN each * layers[i][2]
                      * (CASE p = 0 -> 1 [] p = 1 -> d [] p = 2 -> d * d)])

\* what the claim expects of the query recorded in geo_out
LayerFormula(f, name, e0, k, center) ==
    CASE name = "get_normal_resistance" ->
            Scalar(LayerSum(f, e0, k, center, get_stress, 0))
      [] name = "get_moment_resistance" ->
            Scalar(LayerSum(f, e0, k, center, get_stress, 1))
      [] name = "get_stiffness" ->
            Array(<<LayerSum(f, e0, k, center, get_stiff, 0),
                    LayerSum(f, e0, k, center, get_stiff, 1),
                    LayerSum(f, e0, k, center, get_stiff, 2)>>)

ResultantQueries ==
    {"get_normal_resistance", "get_moment_resistance", "get_stiffness"}

\* C23: for a RectSection with N layers, layer i at distance d_i = center - y_i
\* from the reference height, the normal resistance is the sum of
\* stress_i * A/N, the moment resistance the sum of stress_i * A/N * d_i and the
\* stiffness (a00, a01, a11) the sums of E_i * A/N, E_i * A/N * d_i and
\* E_i * A/N * d_i^2, at the layer strains e0 + k*d_i; a Rebar obeys the same
\* with a single layer of its full area at its own height.
C23_LayerSums ==
    (geo_out.op \in ResultantQueries /\ fiber.type \in {"Rect", "Rebar"}) =>
        geo_out.res = LayerFormula(fiber, geo_out.op, geo_out.arg[1],
                                   geo_out.arg[2], geo_out.arg[3])

\* C23 where the material law is element-wise (Concrete), and for a Rebar: the
\* sums are the ones computed
C23_ElementwiseLayerSums ==
    (/\ geo_out.op \in ResultantQueries
     /\ \/ fiber.type = "Rebar"
        \/ fiber.type = "Rect" /\ fiber.material.type = "Concrete") =>
        geo_out.res = LayerFormula(fiber, geo_out.op, geo_out.arg[1],
                                   geo_out.arg[2], geo_out.arg[3])

\* C23: a Concrete RectSection of four layers, resized, asked under curvature
\* for a moment that is not zero
C23_ConcreteLayersSummed ==
    /\ geo_out.op = "get_moment_resistance"
    /\ fiber.type = "Rect"
    /\ fiber.material.type = "Concrete"
    /\ fiber.n_discret = 4
    /\ geo_out.arg[2] # 0
    /\ geo_out.res.kind = "scalar"
    /\ Val(geo_out.res) # 0
    /\ geo_out.res = LayerFormula(fiber, geo_out.op, geo_out.arg[1],
                                  geo_out.arg[2], geo_out.arg[3])

\* C23: a RectSection of steel with more than one layer raises instead
C23_SteelLayersRaise ==
    /\ geo_out.op \in ResultantQueries
    /\ fiber.type = "Rect"
    /\ fiber.material.type = "SteelIdeal"
    /\ fiber.n_discret > 1
    /\ geo_out.res = Raise("ValueError")

\* C24: after any sequence of width and height assignments on a RectSection,
\* area_discret = width * height / n_discret and
\* h_discret[i] = height * (i + 1/2) / n_discret for i in 0..n_discret-1, so
\* the layer areas sum to the current area.
C24_DiscretizationCurrent ==
    fiber.type = "Rect" =>
        /\ Len(fiber.h_discret) = fiber.n_discret
        /\ fiber.area_discret * fiber.n_discret
             = AreaScale * fiber.width * fiber.height
        /\ \A i \in 0..(fiber.n_discret - 1) :
              2 * fiber.n_discret * fiber.h_discret[i + 1]
                 = fiber.height * (2 * i + 1)

\* C24: a RectSection of four layers whose height was just assigned, and is
\* not the width-to-height pairing it could have been constructed with alone
C24_HeightAssigned ==
    /\ fiber.type = "Rect"
    /\ geo_out.op = "height="
    /\ geo_out.arg[1] = 16
    /\ fiber.n_discret = 4
    /\ fiber.h_discret = <<2, 6, 10, 14>>

\* a step that is a negative assignment raises and leaves the fiber as it was
NegativeAssignmentRejected ==
    (geo_out'.op \in {"diameter=", "area="} /\ geo_out'.arg[1] < 0) =>
        /\ geo_out'.res.kind = "raise"
        /\ fiber'.diameter = fiber.diameter
        /\ fiber'.area = fiber.area

SizesNonNegative ==
    IsRebar(fiber) => (fiber.area >= 0 /\ fiber.diameter >= 0)

\* C26: assigning a negative diameter or a negative area to a Rebar or a
\* Tendon raises and leaves the stored diameter and the stored area unchanged;
\* area >= 0 and diameter >= 0 hold after any sequence of assignments.
C26_NegativeRejected ==
    [][NegativeAssignmentRejected]_vars /\ []SizesNonNegative

\* C26: a negative area was assigned to a Tendon of positive area, and raised
C26_NegativeAreaRaised ==
    /\ fiber.type = "Tendon"
    /\ geo_out.op = "area="
    /\ geo_out.arg[1] < 0
    /\ geo_out.res.kind = "raise"
    /\ fiber.area > 0

\* what a resultant query on the fiber f returns or raises
QueryOutcome(f, name, e0, k, center) ==
    CASE name = "get_normal_resistance" ->
            IF Rect_stress_error(f, e0, k, center) # "-"
            THEN Raise(Rect_stress_error(f, e0, k, center))
            ELSE Scalar(get_normal_resistance(f, e0, k, center))
      [] name = "get_moment_resistance" ->
            IF Rect_stress_error(f, e0, k, center) # "-"
            THEN Raise(Rect_stress_error(f, e0, k, center))
            ELSE Scalar(get_moment_resistance(f, e0, k, center))
      [] name = "get_stiffness" ->
            IF Rect_stiff_error(f, e0, k, center) # "-"
            THEN Raise(Rect_stiff_error(f, e0, k, center))
            ELSE Array(get_stiffness(f, e0, k, center))

\* the two RectSections of half the height and half the layers that tile f
LowerHalf(f) ==
    RectSection(f.width, f.height \div 2, f.material,
                <<f.center[1], f.center[2] - f.height \div 4>>,
                f.n_discret \div 2)

UpperHalf(f) ==
    RectSection(f.width, f.height \div 2, f.material,
                <<f.center[1], f.center[2] + f.height \div 4>>,
                f.n_discret \div 2)

\* the sum of the two halves' answers; an exception of either leaves the sum
HalvesSum(f, name, e0, k, center) ==
    LET lo == QueryOutcome(LowerHalf(f), name, e0, k, center)
        up == QueryOutcome(UpperHalf(f), name, e0, k, center)
    IN CASE lo.kind = "raise" -> lo
         [] up.kind = "raise" -> up
         [] OTHER -> [lo EXCEPT !.v = [i \in 1..Len(lo.v) |->
                                          lo.v[i] + up.v[i]]]

Halvable(f) == f.type = "Rect" /\ f.n_discret % 2 = 0

\* C28: a RectSection of width w and height h with 2N layers centred at (x, y)
\* gives, for every (e0, k, center), the same normal resistance, moment
\* resistance and stiffness as the sum of two RectSections of width w, height
\* h/2 and N layers of the same material centred at (x, y - h/4) and
\* (x, y + h/4).
C28_HalvesAgree ==
    (geo_out.op \in ResultantQueries /\ Halvable(fiber)) =>
        geo_out.res = HalvesSum(fiber, geo_out.op, geo_out.arg[1],
                                geo_out.arg[2], geo_out.arg[3])

\* C28 where the material law is element-wise (Concrete)
C28_ConcreteHalvesAgree ==
    (/\ geo_out.op \in ResultantQueries
     /\ Halvable(fiber)
     /\ fiber.material.type = "Concrete") =>
        geo_out.res = HalvesSum(fiber, geo_out.op, geo_out.arg[1],
                                geo_out.arg[2], geo_out.arg[3])

\* C28: the stiffness of a Concrete RectSection of four layers under
\* curvature, with a coupling term, is the sum of its halves'
C28_ConcreteHalvesSummed ==
    /\ geo_out.op = "get_stiffness"
    /\ Halvable(fiber)
    /\ fiber.n_discret = 4
    /\ fiber.material.type = "Concrete"
    /\ geo_out.arg[2] # 0
    /\ geo_out.res.kind = "array"
    /\ geo_out.res.v[2] # 0
    /\ geo_out.res = HalvesSum(fiber, geo_out.op, geo_out.arg[1],
                               geo_out.arg[2], geo_out.arg[3])

(***************************************************************************)
(* Properties of the section's centroid and stiffness                      *)
(***************************************************************************)
\* the stored centroid is the stiffness-weighted centroid of the fibers as
\* they are (a section constructed from a list, whose centroid is None, set
\* aside)
CentroidCurrent ==
    (section # <<>> /\ centroid.tag # "None") =>
        centroid = compute_centroid(section)

\* the moment resultant last asked for was taken about the centroid of the
\* fibers as they are
ResultantAboutCurrentCentroid ==
    (geo_out.op = "get_moment_res" /\ geo_out.res.kind = "scalar") =>
        Val(geo_out.res)
           = get_moment_res(section, compute_centroid(section).y,
                            geo_out.arg[1], geo_out.arg[2])

\* C25: after any sequence of fiber additions and fiber geometry changes on
\* fibers that belong to a section, every read of section.centroid and every
\* resultant call uses the stiffness-weighted centroid of the fibers as they
\* currently are, never one computed from their earlier geometry.
C25_CentroidFollowsFibers ==
    CentroidCurrent /\ ResultantAboutCurrentCentroid

\* C25 for additions alone: a section of two fibers at different heights,
\* none resized, whose moment under curvature was taken about its centroid
C25_AddedCentroidCurrent ==
    /\ Len(section) = 2
    /\ section[1].center[2] # section[2].center[2]
    /\ \A i \in 1..2 : IsRebar(section[i]) => section[i].diameter = 1
    /\ centroid = compute_centroid(section)
    /\ geo_out.op = "get_moment_res"
    /\ geo_out.arg[2] # 0
    /\ geo_out.res.kind = "scalar"
    /\ Val(geo_out.res) # 0

\* C25: a bar of the section was resized and the stored centroid is the one
\* of the fibers before
C25_StaleAfterResize ==
    /\ sec_out.op = "section[i].diameter="
    /\ centroid.tag = "num"
    /\ centroid # compute_centroid(section)

\* a00 * a11 and a01^2 of a stiffness matrix of floats, exactly, in units of
\* the smaller of their two exponents
DetDiag(K) ==
    K[1].m * K[3].m
      * TwoTo(K[1].e + K[3].e - Min(K[1].e + K[3].e, 2 * K[2].e))

DetOff(K) ==
    K[2].m * K[2].m * TwoTo(2 * K[2].e - Min(K[1].e + K[3].e, 2 * K[2].e))

FloatStiffReturned == geo_out.op = "get_stiff"

LargerTolerances == {2, 100, 8000}

\* the finished check_section call, made again with the tolerance t
CheckSectionWith(t) ==
    check_section(section, centroid,
                  [cfg EXCEPT !.tolerance_check_section = t],
                  cs.target_normal, cs.target_moment, cs.n_ite)

\* made again as it was, the finished call ends as it did
CheckSectionRepeatable ==
    cs.op = "done" =>
        LET o == CheckSectionWith(cfg.tolerance_check_section)
        IN o.exit = cs.exit /\ o.res = cs.res /\ o.n = cs.n

\* C29: check_section is monotone in its tolerance: if a call converges with
\* tolerance_check_section = t, then with every larger tolerance and
\* everything else equal it also converges, in no more iterations.
C29_ToleranceMonotone ==
    (cs.op = "done" /\ cs.exit = "return") =>
        \A t \in LargerTolerances :
            /\ CheckSectionWith(t).exit = "return"
            /\ CheckSectionWith(t).n <= cs.n

\* C29: a call that converged after a Newton update converges at its first
\* test with a tolerance above its first residual
C29_LooserConvergesSooner ==
    /\ cs.op = "done"
    /\ cs.exit = "return"
    /\ cs.n = 2
    /\ CheckSectionWith(100).exit = "return"
    /\ CheckSectionWith(100).n = 1

\* C29: a call that converged, and with a larger tolerance ends at the
\* determinant test
C29_LooserBreaks ==
    /\ cs.op = "done"
    /\ cs.exit = "return"
    /\ \E t \in LargerTolerances : CheckSectionWith(t).exit = "break"

\* the moments of the midpoints evaluated so far
MidpointMoments == {mm.mids[i][2] : i \in 1..Len(mm.mids)}

\* the largest magnitude among the coarse-sweep extreme and the midpoints
LargestMagnitude ==
    SetMax({Abs(m) : m \in MidpointMoments \cup {mm.coarse}})

\* the search loop of the last get_max_moment call was entered
SearchEntered == mm.j >= 1

\* C30: get_max_moment performs at most n_points search iterations after its
\* coarse sweep; every midpoint solve is counted, a failed one as moment 0,
\* and the call returns the moment of largest magnitude among the coarse-sweep
\* extreme and all evaluated midpoints, so its magnitude is never below that
\* of the coarse-sweep extreme.
C30_SearchReturnsLargest ==
    /\ mm.j <= mm.n_points
    /\ (mm.op = "done" /\ SearchEntered) =>
          /\ mm.res.kind = "return"
          /\ Len(mm.mids) = mm.j
          /\ Val(mm.res) \in MidpointMoments \cup {mm.coarse}
          /\ Abs(Val(mm.res)) = LargestMagnitude
          /\ Abs(Val(mm.res)) >= Abs(mm.coarse)

\* C30 for the calls that return: the bound on the iterations and the largest
\* magnitude
C30_ReturnedIsLargest ==
    /\ mm.j <= mm.n_points
    /\ (mm.op = "done" /\ mm.res.kind = "return") =>
          /\ Len(mm.mids) = mm.j
          /\ Val(mm.res) \in MidpointMoments \cup {mm.coarse}
          /\ Abs(Val(mm.res)) = LargestMagnitude
          /\ Abs(Val(mm.res)) >= Abs(mm.coarse)

\* C30: a search of three iterations returned the moment of a midpoint, larger
\* in magnitude than the coarse-sweep extreme
C30_MidpointReturned ==
    /\ mm.op = "done"
    /\ mm.res.kind = "return"
    /\ mm.j = 3
    /\ Abs(Val(mm.res)) > Abs(mm.coarse)

\* C30: the coarse sweep ended, the start solve did not converge, and the
\* first midpoint solve raised
C30_MidpointRaised ==
    /\ mm.op = "done"
    /\ mm.j = 1
    /\ mm.coarse # 0
    /\ mm.res = Raise("TypeError")

====
